---------------------------- MODULE Spec2Model ----------------------------
(***************************************************************************)
(* A model of the PTY agent orchestrator (orchestrator_enhanced.py, with   *)
(* orchestrator.py as the earlier variant of the agent lifecycle).         *)
(*                                                                         *)
(* Text is modelled as a sequence of tokens.  A token is either one        *)
(* ordinary character (" ", "\n", "x", ...) or one of the multi-character  *)
(* strings the code searches for ("[COMPLETE]", "[DONE]", "@claude-2:",    *)
(* a noise keyword, a prompt), kept whole.  Operators on text are computed *)
(* the way the Python code computes them on strings.                       *)
(***************************************************************************)
EXTENDS Naturals, Integers, Sequences, FiniteSets, TLC

(***************************************************************************)
(* Bounds of the model.                                                    *)
(***************************************************************************)
\* the loop budget B (max_orchestration_loops is 10 in the program)
MaxLoops == 2
\* longest raw reply, in tokens, an agent produces in one turn
MaxOut == 2

(***************************************************************************)
(* Program constants.                                                      *)
(***************************************************************************)
\* max_idle_checks of the response collector
MaxIdleChecks == 3

None == "None"

Agents == {"claude-1", "claude-2", "codex"}

(***************************************************************************)
(* Text helpers: str.strip, str.split, str.join, str.replace.              *)
(***************************************************************************)
Whitespace == {" ", "\n", "\r", "\t"}

RECURSIVE LStrip(_)
LStrip(s) ==
    IF s = <<>> THEN s
    ELSE IF Head(s) \in Whitespace THEN LStrip(Tail(s)) ELSE s

RECURSIVE RStrip(_)
RStrip(s) ==
    IF s = <<>> THEN s
    ELSE IF s[Len(s)] \in Whitespace THEN RStrip(SubSeq(s, 1, Len(s) - 1)) ELSE s

Strip(s) == RStrip(LStrip(s))

Contains(s, t) == \E i \in 1..Len(s) : s[i] = t

FirstIndex(s, t) == CHOOSE i \in 1..Len(s) : s[i] = t /\ \A j \in 1..(i - 1) : s[j] # t

\* s.split(sep): every piece between occurrences of sep, at least one piece
RECURSIVE Split(_, _)
Split(s, sep) ==
    IF ~Contains(s, sep) THEN <<s>>
    ELSE LET i == FirstIndex(s, sep)
         IN  <<SubSeq(s, 1, i - 1)>> \o Split(SubSeq(s, i + 1, Len(s)), sep)

\* s.split(sep, 1): cut at the first occurrence of sep only
SplitOnce(s, sep) ==
    IF ~Contains(s, sep) THEN <<s>>
    ELSE LET i == FirstIndex(s, sep)
         IN  <<SubSeq(s, 1, i - 1), SubSeq(s, i + 1, Len(s))>>

\* sep.join(lines)
RECURSIVE Join(_, _)
Join(lines, sep) ==
    IF lines = <<>> THEN <<>>
    ELSE IF Len(lines) = 1 THEN lines[1]
    ELSE lines[1] \o <<sep>> \o Join(Tail(lines), sep)

\* s.replace('\r\n', '\n')
RECURSIVE ReplaceCRLF(_)
ReplaceCRLF(s) ==
    IF s = <<>> THEN s
    ELSE IF Len(s) >= 2 /\ s[1] = "\r" /\ s[2] = "\n"
         THEN <<"\n">> \o ReplaceCRLF(SubSeq(s, 3, Len(s)))
         ELSE <<Head(s)>> \o ReplaceCRLF(Tail(s))

\* s.replace('\r', '\n')
ReplaceCR(s) == [i \in 1..Len(s) |-> IF s[i] = "\r" THEN "\n" ELSE s[i]]

NormalizeNewlines(s) == ReplaceCR(ReplaceCRLF(s))

(***************************************************************************)
(* Marker parser.                                                          *)
(***************************************************************************)
CompleteMarker == "[COMPLETE]"
DoneMarker == "[DONE]"

\* the tokens "@name:" whose name the pattern claude-\d+|codex|gemini accepts
CallHeads == {"@claude-1:", "@claude-2:", "@claude-3:", "@codex:", "@gemini:"}

CallName(h) ==
    CASE h = "@claude-1:" -> "claude-1"
      [] h = "@claude-2:" -> "claude-2"
      [] h = "@claude-3:" -> "claude-3"
      [] h = "@codex:"    -> "codex"
      [] h = "@gemini:"   -> "gemini"

\* tokens whose first character is "@" or "[" (the lookahead \n@ and \n\[ )
AtTokens == CallHeads \cup {"@bob:"}
BracketTokens == {CompleteMarker, DoneMarker, "[note]"}

\* a completion test that forgets the marker [DONE]
IsCompleteOnlyComplete(out) == Contains(out, CompleteMarker)

\* _is_complete
IsComplete(out) == Contains(out, CompleteMarker) \/ Contains(out, DoneMarker)

\* an extraction that cuts at the earliest marker of either kind
ExtractFinalResultEitherFirst(out) ==
    IF ~IsComplete(out) THEN out
    ELSE LET i == CHOOSE i \in 1..Len(out) :
                    /\ out[i] \in {CompleteMarker, DoneMarker}
                    /\ \A j \in 1..(i - 1) : out[j] \notin {CompleteMarker, DoneMarker}
         IN  Strip(SubSeq(out, i + 1, Len(out)))

\* _extract_final_result
ExtractFinalResult(out) ==
    IF Contains(out, CompleteMarker)
    THEN LET parts == SplitOnce(out, CompleteMarker)
         IN  IF Len(parts) > 1 THEN Strip(parts[2]) ELSE out
    ELSE IF Contains(out, DoneMarker)
    THEN LET parts == SplitOnce(out, DoneMarker)
         IN  IF Len(parts) > 1 THEN Strip(parts[2]) ELSE out
    ELSE out

\* the result None of _parse_agent_call
NoCall == <<>>

\* the lookahead (?=\n@|\n\[|$) at the position after index e of s
LookaheadAt(s, e) ==
    \/ e = Len(s)
    \/ e + 1 = Len(s) /\ s[e + 1] = "\n"
    \/ e + 2 <= Len(s) /\ s[e + 1] = "\n" /\ s[e + 2] \in (AtTokens \cup BracketTokens)

\* a parse that takes a reply without any "@name:" as a task for claude-2
ParseAgentCallLoose(out) ==
    IF \E i \in 1..(Len(out) - 1) : out[i] \in CallHeads
    THEN <<CallName(out[CHOOSE i \in 1..(Len(out) - 1) : out[i] \in CallHeads]),
           SubSeq(out, 2, Len(out))>>
    ELSE <<"claude-2", out>>

\* _parse_agent_call: re.search of  @(claude-\d+|codex|gemini):\s*(.+?)(?=\n@|\n\[|$)
\* with DOTALL; NoCall, or the pair (agent_name, task) of the leftmost match
ParseAgentCall(out) ==
    IF ~\E i \in 1..(Len(out) - 1) : out[i] \in CallHeads THEN NoCall
    ELSE LET i == CHOOSE i \in 1..(Len(out) - 1) :
                    out[i] \in CallHeads /\ \A j \in 1..(i - 1) : out[j] \notin CallHeads
             rest == SubSeq(out, i + 1, Len(out))
             \* \s* is greedy and gives back one character when nothing else is left
             k == IF LStrip(rest) = <<>> THEN Len(rest) - 1
                  ELSE Len(rest) - Len(LStrip(rest))
             p == i + 1 + k
             e == CHOOSE e \in p..Len(out) :
                    LookaheadAt(out, e) /\ \A f \in p..(e - 1) : ~LookaheadAt(out, f)
         IN  <<CallName(out[i]), Strip(SubSeq(out, p, e))>>


(***************************************************************************)
(* Line filtering of a reply (_clean_output_lines).                        *)
(***************************************************************************)
\* a noise keyword occurring in a line, kept as one token
NoiseKeywords == {"esc to interrupt", "thinking on", "token"}
\* the characters a divider line is made of (the rule characters and space)
DividerChars == {"-", " "}
\* the non-breaking space, replaced by a space before trimming
NBSP == "nbsp"
\* f'{agent_label}>' as one token
PromptOf(label) ==
    CASE label = "claude-1" -> "claude-1>"
      [] label = "claude-2" -> "claude-2>"
      [] label = "claude1" -> "claude1>"
      [] label = "claude2" -> "claude2>"
      [] OTHER -> "codex>"

ReplaceNBSP(s) == [i \in 1..Len(s) |-> IF s[i] = NBSP THEN " " ELSE s[i]]

\* one pass of the loop body up to the duplicate test: the empty sequence when
\* the line is dropped, else the one text that is kept for it
CleanLine(command, raw_line, label) ==
    LET normalized == Strip(ReplaceNBSP(raw_line))
        afterPrompt ==
            IF normalized # <<>> /\ Head(normalized) = PromptOf(label)
            THEN Strip(Tail(normalized))
            ELSE normalized
    IN  IF raw_line = <<>> THEN <<>>
        ELSE IF normalized = <<>> THEN <<>>
        ELSE IF normalized = command THEN <<>>
        ELSE IF normalized \in {<<">">>, <<PromptOf(label)>>} THEN <<>>
        ELSE IF Head(normalized) = PromptOf(label)
                /\ (afterPrompt = <<>> \/ afterPrompt = command) THEN <<>>
        ELSE IF Head(afterPrompt) = ">"
                /\ LET remaining == Strip(Tail(afterPrompt))
                   IN  remaining = command \/ remaining = <<>> THEN <<>>
        ELSE IF \A i \in 1..Len(afterPrompt) : afterPrompt[i] \in DividerChars THEN <<>>
        ELSE IF \E i \in 1..Len(afterPrompt) : afterPrompt[i] \in NoiseKeywords THEN <<>>
        ELSE <<afterPrompt>>

RECURSIVE CleanFrom(_, _, _, _)
CleanFrom(command, lines, label, cleaned) ==
    IF lines = <<>> THEN cleaned
    ELSE LET kept == CleanLine(command, Head(lines), label)
         IN  IF kept = <<>> \/ (\E i \in 1..Len(cleaned) : cleaned[i] = kept[1])
             THEN CleanFrom(command, Tail(lines), label, cleaned)
             ELSE CleanFrom(command, Tail(lines), label, Append(cleaned, kept[1]))

\* _clean_output_lines
CleanOutputLines(command, lines, label) == CleanFrom(command, lines, label, <<>>)

\* lines 739-742 and 806-809: normalise, split into lines, filter, join; the raw
\* output is kept when no line survives
CleanedOutput(command, out, label) ==
    LET lines == Split(NormalizeNewlines(out), "\n")
        cleaned_lines == CleanOutputLines(command, lines, label)
    IN  IF cleaned_lines # <<>> THEN Join(cleaned_lines, "\n") ELSE out

\* the system instruction prepended to the operator's text (lines 688-694)
SystemInstruction == <<"\n", "<system instruction>", "\n", "\n">>

\* a continuation text that leaves the secondary's reply out
ContinueCommandBare(cleaned_output2) == <<"<please continue>">>

\* the text sent back to the primary after a delegation (line 828)
ContinueCommand(cleaned_output2) ==
    <<"<claude-2 response:>", "\n", "\n">> \o cleaned_output2
        \o <<"\n", "\n", "<please continue>">>

(***************************************************************************)
(* State.                                                                  *)
(***************************************************************************)
VARIABLES
    \* Orchestrator.agents: the registered names
    registered,
    \* CLIAgent fields, per agent
    pid, fd, process_running, pty_closed,
    \* the environment: whether the agent's child process is present, which is
    \* what the signal-0 probe of is_running observes
    alive,
    \* the environment: the tokens each agent's replies are made of
    vocab,
    \* InteractiveSession.claude1 / claude2: an agent name or None
    claude1, claude2,
    \* position of the session driver's foreground thread
    pc,
    \* locals of _send_to_claude1_with_orchestration
    loop_count, current_agent, current_command,
    output, idle_checks, cleaned_output, final_result,
    task, claude2_output, idle_checks2, cleaned_output2,
    \* observation: the agents written to for the current operator input, in
    \* order, and the text of the latest write
    sends, last_sent,
    \* observation: how the loop of the current input ended, and whether the
    \* "maximum loops reached" warning was printed after it
    outcome, budget_warned,
    \* the environment: whether the agent's child still holds the PTY slave
    \* open; once it does not, a read of the master fails with EIO
    slave_open,
    \* CLIAgent.heartbeat_running, per agent
    heartbeat_running,
    \* positions of the threads that work on one agent: the callers of
    \* read_output (main thread, monitor thread; the main thread is at a
    \* statement of send_command when it sends), the heartbeat thread, and
    \* terminate() on the main thread
    reader, heartbeat, term,
    \* observation: the calls of terminate() that returned, and the closes of
    \* the PTY master fd, per agent
    terminations, closes,
    \* the environment: the bytes the child has written that no read has taken
    \* yet, and how many bytes it has written so far (byte k is the number k)
    pty, produced,
    \* CLIAgent.output_buffer, per agent
    output_buffer,
    \* the local `output` of each caller of read_output, and the local
    \* `response` of the heartbeat thread
    out, response,
    \* observation: the bytes read_output has returned to the collector on the
    \* main thread, and the bytes it has returned to the monitor thread
    received, discarded,
    \* Orchestrator.agents: its keys are `registered`, and cli_command is the
    \* command each registered CLIAgent was built with
    cli_command,
    \* Orchestrator.running
    running,
    \* the position of main(), the exit status of the process once a sys.exit
    \* has been raised or main() has returned, and the position of the signal
    \* handler when it interrupts main()
    main, exit_code, handler,
    \* start_all: the agents whose start() has been called, the agent whose
    \* start() is in progress, the local success_count
    attempted, starting, success_count,
    \* observation: the agents whose start() returned True, and the values the
    \* last register_agent and start_all calls returned
    start_ok, register_result, start_all_result,
    \* shutdown, per caller (main() or the signal handler): the agents its loop
    \* has still to visit, and observation of those it has called terminate() on
    todo, terminated,
    \* InteractiveSession.auto_orchestration
    auto_orchestration,
    \* the monitor thread's claude1_was_running and claude2_was_running, per
    \* agent, and observation of the warnings it has printed about each agent
    was_running, warnings,
    \* a collector's clock in half seconds since its command was sent, its
    \* deadline, and what the debug log says of each of its reads
    now, deadline, attempt_log,
    \* observation: the role and agent name of each message the orchestration
    \* loop has added to ConversationHistory.messages for the current input
    history

agentVars == <<registered, pid, fd, process_running, pty_closed, alive, vocab>>
monitorVars == <<was_running, warnings>>
collectorVars == <<now, deadline, attempt_log>>
sessionVars == <<claude1, claude2, auto_orchestration, monitorVars, collectorVars,
                 history>>
orchVars == <<cli_command, running, main, exit_code, handler, attempted, starting,
              success_count, start_ok, register_result, start_all_result, todo,
              terminated>>
loopVars == <<pc, loop_count, current_agent, current_command, output, idle_checks,
              cleaned_output, final_result, task, claude2_output, idle_checks2,
              cleaned_output2, sends, last_sent, outcome, budget_warned>>
streamVars == <<pty, produced, output_buffer, out, response, received, discarded>>
threadVars == <<slave_open, heartbeat_running, reader, heartbeat, term,
                terminations, closes, streamVars>>
vars == <<agentVars, sessionVars, orchVars, loopVars, threadVars>>

(***************************************************************************)
(* CLIAgent.                                                               *)
(***************************************************************************)
\* is_running: the value returned
IsRunning(a) == pid[a] # None /\ alive[a]

\* a probe that leaves process_running alone when it fails
AfterIsRunningNoClear(a, flags) == flags

\* is_running: process_running after the call (cleared when the probe fails)
AfterIsRunning(a, flags) ==
    IF pid[a] # None /\ ~alive[a] THEN [flags EXCEPT ![a] = FALSE] ELSE flags

\* a send that writes without probing the child
SendCommandNoProbe(a) == fd[a] # None

\* send_command: the value returned; the bytes are written exactly when it is TRUE
SendCommand(a) == fd[a] # None /\ IsRunning(a)

\* send_command: process_running after the call
AfterSendCommand(a, flags) ==
    IF fd[a] = None THEN flags ELSE AfterIsRunning(a, flags)

\* read_output: the chunks a call may return to the collector that has
\* gathered `sofar`: nothing, or one more token of the agent's reply
ReadOutput(a, sofar) ==
    {<<>>} \cup (IF Len(sofar) < MaxOut THEN {<<t>> : t \in vocab[a]} ELSE {})

\* the child of a running agent exits and leaves the process table
ChildExit(a) ==
    /\ alive[a]
    /\ alive' = [alive EXCEPT ![a] = FALSE]
    /\ slave_open' = [slave_open EXCEPT ![a] = FALSE]
    /\ UNCHANGED <<registered, pid, fd, process_running, pty_closed, vocab>>
    /\ UNCHANGED <<sessionVars, orchVars, loopVars>>
    /\ UNCHANGED <<heartbeat_running, reader, heartbeat, term, terminations, closes>>
    /\ UNCHANGED streamVars

(***************************************************************************)
(* The orchestration loop (_send_to_claude1_with_orchestration).           *)
(***************************************************************************)
\* the operator's inputs
Commands == {<<"x">>}

\* ConversationHistory.add_user_message, add_agent_message and
\* add_system_message: the role and agent name of the Message appended
UserMessage == [role |-> "user", agent_name |-> None]
AgentMessage(name) == [role |-> "agent", agent_name |-> name]
SystemMessage == [role |-> "system", agent_name |-> None]

\* an input that is not recorded in the history
InputUnrecorded(command) ==
    /\ pc = "idle"
    /\ IF claude1 = None \/ ~IsRunning(claude1)
       THEN /\ process_running' =
                  IF claude1 = None THEN process_running
                  ELSE AfterIsRunning(claude1, process_running)
            /\ outcome' = "unavailable"
            /\ history' = <<>>
            /\ UNCHANGED <<pc, current_agent, current_command>>
       ELSE /\ pc' = "loop"
            /\ current_agent' = claude1
            /\ current_command' = SystemInstruction \o command
            /\ outcome' = "running"
            /\ history' = <<>>
            /\ UNCHANGED process_running
    /\ loop_count' = 0
    /\ output' = <<>>
    /\ idle_checks' = 0
    /\ cleaned_output' = <<>>
    /\ final_result' = <<>>
    /\ task' = <<>>
    /\ claude2_output' = <<>>
    /\ idle_checks2' = 0
    /\ cleaned_output2' = <<>>
    /\ sends' = <<>>
    /\ last_sent' = <<>>
    /\ budget_warned' = FALSE
    /\ UNCHANGED <<registered, pid, fd, pty_closed, alive, vocab, orchVars, threadVars>>
    /\ UNCHANGED <<claude1, claude2, auto_orchestration, monitorVars, collectorVars>>

\* lines 678-704: the guard, the user message (lines 683-684), the initial
\* command and the loop's locals
Input(command) ==
    /\ pc = "idle"
    /\ IF claude1 = None \/ ~IsRunning(claude1)
       THEN /\ process_running' =
                  IF claude1 = None THEN process_running
                  ELSE AfterIsRunning(claude1, process_running)
            /\ outcome' = "unavailable"
            /\ history' = <<>>
            /\ UNCHANGED <<pc, current_agent, current_command>>
       ELSE /\ pc' = "loop"
            /\ current_agent' = claude1
            /\ current_command' = SystemInstruction \o command
            /\ outcome' = "running"
            /\ history' = <<UserMessage>>
            /\ UNCHANGED process_running
    /\ loop_count' = 0
    /\ output' = <<>>
    /\ idle_checks' = 0
    /\ cleaned_output' = <<>>
    /\ final_result' = <<>>
    /\ task' = <<>>
    /\ claude2_output' = <<>>
    /\ idle_checks2' = 0
    /\ cleaned_output2' = <<>>
    /\ sends' = <<>>
    /\ last_sent' = <<>>
    /\ budget_warned' = FALSE
    /\ UNCHANGED <<registered, pid, fd, pty_closed, alive, vocab, orchVars, threadVars>>
    /\ UNCHANGED <<claude1, claude2, auto_orchestration, monitorVars, collectorVars>>

\* line 706: the loop test
LoopContinuesOffByOne(count) == count <= MaxLoops
LoopContinues(count) == count < MaxLoops

\* a loop that waits for a reply also after a send that failed
LoopSendCollectsAnyway ==
    /\ pc = "loop"
    /\ IF LoopContinues(loop_count)
       THEN /\ loop_count' = loop_count + 1
            /\ process_running' = AfterSendCommand(current_agent, process_running)
            /\ pc' = "collect"
            /\ IF SendCommand(current_agent)
               THEN /\ sends' = Append(sends, current_agent)
                    /\ last_sent' = current_command
                    /\ outcome' = outcome
               ELSE /\ outcome' = "send_failed"
                    /\ UNCHANGED <<sends, last_sent>>
       ELSE /\ pc' = "after"
            /\ outcome' = "exhausted"
            /\ UNCHANGED <<loop_count, process_running, sends, last_sent>>
    /\ output' = <<>>
    /\ idle_checks' = 0
    /\ cleaned_output' = <<>>
    /\ task' = <<>>
    /\ claude2_output' = <<>>
    /\ idle_checks2' = 0
    /\ cleaned_output2' = <<>>
    /\ UNCHANGED <<registered, pid, fd, pty_closed, alive, vocab, sessionVars, orchVars, threadVars>>
    /\ UNCHANGED <<current_agent, current_command, final_result, budget_warned>>

\* lines 706-722: the loop test, the count, the send to the current agent
LoopSend ==
    /\ pc = "loop"
    /\ IF LoopContinues(loop_count)
       THEN /\ loop_count' = loop_count + 1
            /\ process_running' = AfterSendCommand(current_agent, process_running)
            /\ IF SendCommand(current_agent)
               THEN /\ sends' = Append(sends, current_agent)
                    /\ last_sent' = current_command
                    /\ pc' = "collect"
                    /\ outcome' = outcome
               ELSE /\ pc' = "after"
                    /\ outcome' = "send_failed"
                    /\ UNCHANGED <<sends, last_sent>>
       ELSE /\ pc' = "after"
            /\ outcome' = "exhausted"
            /\ UNCHANGED <<loop_count, process_running, sends, last_sent>>
    /\ output' = <<>>
    /\ idle_checks' = 0
    \* the locals of the previous pass are assigned again before they are read
    /\ cleaned_output' = <<>>
    /\ task' = <<>>
    /\ claude2_output' = <<>>
    /\ idle_checks2' = 0
    /\ cleaned_output2' = <<>>
    /\ UNCHANGED <<registered, pid, fd, pty_closed, alive, vocab, sessionVars, orchVars, threadVars>>
    /\ UNCHANGED <<current_agent, current_command, final_result, budget_warned>>

\* a collector that writes the command again whenever a pass brought nothing
CollectReadNudging ==
    /\ pc = "collect"
    /\ idle_checks < MaxIdleChecks
    /\ \E chunk \in ReadOutput(current_agent, output) :
          IF chunk # <<>>
          THEN output' = output \o chunk /\ idle_checks' = 0 /\ sends' = sends
          ELSE /\ output' = output /\ idle_checks' = idle_checks + 1
               /\ sends' = Append(sends, current_agent)
    /\ process_running' = AfterIsRunning(current_agent, process_running)
    /\ UNCHANGED <<registered, pid, fd, pty_closed, alive, vocab, sessionVars, orchVars, threadVars>>
    /\ UNCHANGED <<pc, loop_count, current_agent, current_command, cleaned_output,
                   final_result, task, claude2_output, idle_checks2, cleaned_output2,
                   last_sent, outcome, budget_warned>>

\* lines 724-732: one pass of the collector of the current agent
CollectRead ==
    /\ pc = "collect"
    /\ idle_checks < MaxIdleChecks
    /\ \E chunk \in ReadOutput(current_agent, output) :
          IF chunk # <<>>
          THEN output' = output \o chunk /\ idle_checks' = 0
          ELSE output' = output /\ idle_checks' = idle_checks + 1
    /\ process_running' = AfterIsRunning(current_agent, process_running)
    /\ UNCHANGED <<registered, pid, fd, pty_closed, alive, vocab, sessionVars, orchVars, threadVars>>
    /\ UNCHANGED <<pc, loop_count, current_agent, current_command, cleaned_output,
                   final_result, task, claude2_output, idle_checks2, cleaned_output2,
                   sends, last_sent, outcome, budget_warned>>

\* a collector that ends only once something has arrived
CollectEndNeedsOutput ==
    /\ pc = "collect"
    /\ output # <<>>
    /\ pc' = "route"
    /\ idle_checks' = 0
    /\ UNCHANGED <<agentVars, sessionVars, orchVars, threadVars>>
    /\ UNCHANGED <<loop_count, current_agent, current_command, output,
                   cleaned_output, final_result, task, claude2_output, idle_checks2,
                   cleaned_output2, sends, last_sent, outcome, budget_warned>>

\* line 724: the collector ends, by idle count or (after at least one pass) by
\* the deadline
CollectEnd ==
    /\ pc = "collect"
    /\ idle_checks >= MaxIdleChecks \/ output # <<>> \/ idle_checks > 0
    /\ pc' = "route"
    /\ idle_checks' = 0
    /\ UNCHANGED <<agentVars, sessionVars, orchVars, threadVars>>
    /\ UNCHANGED <<loop_count, current_agent, current_command, output,
                   cleaned_output, final_result, task, claude2_output, idle_checks2,
                   cleaned_output2, sends, last_sent, outcome, budget_warned>>

\* lines 745-746, 781-782: a reply that is not blank is recorded under the
\* name of the agent that gave it, and a call of claude-2 is recorded as a
\* system message before the task is sent
HistoryAfterRoute ==
    LET cleaned == CleanedOutput(current_command, output, current_agent)
        agent_call == ParseAgentCall(cleaned)
        replied == Append(history, AgentMessage(current_agent))
    IN  IF Strip(output) = <<>> THEN history
        ELSE IF IsComplete(cleaned) \/ agent_call = NoCall THEN replied
        ELSE IF agent_call[1] = "claude-2" /\ claude2 # None
             THEN Append(replied, SystemMessage)
        ELSE replied

\* lines 734-837: empty reply, cleaning, completion, delegation, no marker.
\* The raw output is read for the last time here, and the cleaned reply and the
\* command are not read again once the task has been sent on: each is let go
\* at the point after which the code no longer reads it.
Route ==
    /\ pc = "route"
    /\ LET cleaned == CleanedOutput(current_command, output, current_agent)
           agent_call == ParseAgentCall(cleaned)
       IN  IF Strip(output) = <<>>
           THEN /\ outcome' = "no_response"
                /\ pc' = "after"
                /\ UNCHANGED <<cleaned_output, final_result, task, process_running,
                               sends, last_sent, current_command>>
           ELSE IF IsComplete(cleaned)
           THEN /\ cleaned_output' = cleaned
                /\ final_result' = ExtractFinalResult(cleaned)
                /\ outcome' = "complete"
                /\ pc' = "after"
                /\ UNCHANGED <<task, process_running, sends, last_sent,
                               current_command>>
           ELSE IF agent_call # NoCall
           THEN /\ task' = agent_call[2]
                /\ IF agent_call[1] = "claude-2" /\ claude2 # None
                   THEN /\ process_running' = AfterSendCommand(claude2, process_running)
                        /\ IF SendCommand(claude2)
                           THEN /\ sends' = Append(sends, claude2)
                                /\ last_sent' = agent_call[2]
                                /\ pc' = "collect2"
                                /\ outcome' = outcome
                                /\ cleaned_output' = <<>>
                                /\ current_command' = <<>>
                           ELSE /\ outcome' = "call_failed"
                                /\ pc' = "after"
                                /\ cleaned_output' = cleaned
                                /\ UNCHANGED <<sends, last_sent, current_command>>
                   ELSE /\ outcome' = "not_available"
                        /\ pc' = "after"
                        /\ cleaned_output' = cleaned
                        /\ UNCHANGED <<process_running, sends, last_sent,
                                       current_command>>
                /\ UNCHANGED final_result
           ELSE /\ cleaned_output' = cleaned
                /\ outcome' = "no_marker"
                /\ pc' = "after"
                /\ UNCHANGED <<final_result, task, process_running, sends, last_sent,
                               current_command>>
    /\ output' = <<>>
    /\ claude2_output' = <<>>
    /\ idle_checks2' = 0
    /\ history' = HistoryAfterRoute
    /\ UNCHANGED <<registered, pid, fd, pty_closed, alive, vocab, orchVars, threadVars>>
    /\ UNCHANGED <<claude1, claude2, auto_orchestration, monitorVars, collectorVars>>
    /\ UNCHANGED <<loop_count, current_agent, idle_checks, cleaned_output2,
                   budget_warned>>

\* lines 795-803: one pass of the collector of the delegation target
Collect2Read ==
    /\ pc = "collect2"
    /\ idle_checks2 < MaxIdleChecks
    /\ \E chunk2 \in ReadOutput(claude2, claude2_output) :
          IF chunk2 # <<>>
          THEN claude2_output' = claude2_output \o chunk2 /\ idle_checks2' = 0
          ELSE claude2_output' = claude2_output /\ idle_checks2' = idle_checks2 + 1
    /\ process_running' = AfterIsRunning(claude2, process_running)
    /\ UNCHANGED <<registered, pid, fd, pty_closed, alive, vocab, sessionVars, orchVars, threadVars>>
    /\ UNCHANGED <<pc, loop_count, current_agent, current_command, output, idle_checks,
                   cleaned_output, final_result, task, cleaned_output2,
                   sends, last_sent, outcome, budget_warned>>

\* line 795: the second collector ends
Collect2End ==
    /\ pc = "collect2"
    /\ idle_checks2 >= MaxIdleChecks \/ claude2_output # <<>> \/ idle_checks2 > 0
    /\ pc' = "forward"
    /\ idle_checks2' = 0
    /\ UNCHANGED <<agentVars, sessionVars, orchVars, threadVars>>
    /\ UNCHANGED <<loop_count, current_agent, current_command, output, idle_checks,
                   cleaned_output, final_result, task, claude2_output,
                   cleaned_output2, sends, last_sent, outcome, budget_warned>>

\* a forwarding step that looks for a completion marker in the target's reply
ForwardActsOnMarkers ==
    /\ pc = "forward"
    /\ cleaned_output2' = CleanedOutput(task, claude2_output, "claude-2")
    /\ current_agent' = claude1
    /\ current_command' = ContinueCommand(cleaned_output2')
    /\ IF IsComplete(cleaned_output2')
       THEN pc' = "after" /\ outcome' = "complete"
       ELSE pc' = "loop" /\ outcome' = outcome
    /\ history' = Append(history, AgentMessage("claude-2"))
    /\ UNCHANGED <<agentVars, orchVars, threadVars>>
    /\ UNCHANGED <<claude1, claude2, auto_orchestration, monitorVars, collectorVars>>
    /\ UNCHANGED <<loop_count, output, idle_checks, cleaned_output, final_result, task,
                   claude2_output, idle_checks2, sends, last_sent, budget_warned>>

\* lines 805-828: clean the target's reply, record it under the name
\* claude-2 (lines 812-813) and route back to the primary
Forward ==
    /\ pc = "forward"
    /\ cleaned_output2' = CleanedOutput(task, claude2_output, "claude-2")
    /\ current_agent' = claude1
    /\ current_command' = ContinueCommand(cleaned_output2')
    /\ pc' = "loop"
    /\ history' = Append(history, AgentMessage("claude-2"))
    /\ UNCHANGED <<agentVars, orchVars, threadVars>>
    /\ UNCHANGED <<claude1, claude2, auto_orchestration, monitorVars, collectorVars>>
    /\ UNCHANGED <<loop_count, output, idle_checks, cleaned_output, final_result, task,
                   claude2_output, idle_checks2, sends, last_sent, outcome,
                   budget_warned>>

\* lines 839-840: after the loop
AfterLoop ==
    /\ pc = "after"
    /\ budget_warned' = (loop_count >= MaxLoops)
    /\ pc' = "idle"
    /\ UNCHANGED <<agentVars, sessionVars, orchVars, threadVars>>
    /\ UNCHANGED <<loop_count, current_agent, current_command, output, idle_checks,
                   cleaned_output, final_result, task, claude2_output, idle_checks2,
                   cleaned_output2, sends, last_sent, outcome>>

(***************************************************************************)
(* The session: agents as start_all and InteractiveSession.__init__ leave  *)
(* them, then operator inputs handled one after the other.                 *)
(***************************************************************************)
\* an agent after a start() that returned True, after one that failed before
\* the fork (command not found), and after one that failed after it (the child
\* exited during startup and was reaped)
Started == [pid |-> "pid", fd |-> "fd", running |-> TRUE, alive |-> TRUE]
NotFound == [pid |-> None, fd |-> None, running |-> FALSE, alive |-> FALSE]
Exited == [pid |-> "pid", fd |-> "fd", running |-> FALSE, alive |-> FALSE]

\* the callers of read_output
Threads == {"main", "monitor"}

\* no thread at work on the agents, nothing terminated or closed
ThreadsInit ==
    /\ reader = [t \in Threads |-> "idle"]
    /\ heartbeat = "off"
    /\ term = "none"
    /\ terminations = 0
    /\ closes = [a \in Agents |-> 0]
    /\ pty = <<>>
    /\ produced = 0
    /\ output_buffer = [a \in Agents |-> <<>>]
    /\ out = [t \in Threads |-> <<>>]
    /\ response = <<>>
    /\ received = <<>>
    /\ discarded = <<>>

LoopLocalsInit ==
    /\ pc = "idle"
    /\ loop_count = 0
    /\ current_agent = None
    /\ current_command = <<>>
    /\ output = <<>>
    /\ idle_checks = 0
    /\ cleaned_output = <<>>
    /\ final_result = <<>>
    /\ task = <<>>
    /\ claude2_output = <<>>
    /\ idle_checks2 = 0
    /\ cleaned_output2 = <<>>
    /\ sends = <<>>
    /\ last_sent = <<>>
    /\ outcome = "none"
    /\ budget_warned = FALSE

PrimaryVocab == {CompleteMarker, DoneMarker, "@claude-2:", "@codex:", "x"}
SecondaryVocab == {"x", CompleteMarker}

\* lines 845-846: what _start_monitoring records of the two agents; nothing
\* has been warned about
MonitorInit ==
    /\ was_running = [a \in Agents |-> a \in {claude1, claude2} /\ IsRunning(a)]
    /\ warnings = [a \in Agents |-> 0]

\* no collector has run
CollectorInit ==
    /\ now = 0
    /\ deadline = 0
    /\ attempt_log = <<>>

\* the callers of shutdown
Callers == {"main", "handler"}

\* the commands agents are built with (main, lines 1548-1553; heartbeat and
\* the /status probe are for the command codex, lines 205, 234)
CliCommands == {"claude", "codex"}

\* the orchestrator once start_all has returned True and the session runs
OrchInSession ==
    /\ cli_command = [a \in Agents |->
                         IF a \notin registered THEN None
                         ELSE IF a = "codex" THEN "codex" ELSE "claude"]
    /\ running = TRUE
    /\ main = "session"
    /\ exit_code = <<>>
    /\ handler = "none"
    /\ attempted = registered
    /\ starting = None
    /\ start_ok = {a \in registered : process_running[a]}
    /\ success_count = Cardinality(start_ok)
    /\ register_result = <<TRUE>>
    /\ start_all_result = <<TRUE>>
    /\ todo = [c \in Callers |-> {}]
    /\ terminated = [c \in Callers |-> {}]

\* everything but what the agents may say
SessionInit ==
    /\ \E reg \in SUBSET Agents, st \in [Agents -> {Started, NotFound, Exited}] :
          /\ "claude-1" \in reg
          /\ st["claude-1"] = Started
          /\ st["codex"] # Exited
          /\ \A a \in Agents \ reg : st[a] = NotFound
          /\ "codex" \in reg => st["codex"] = Started
          /\ registered = reg
          /\ pid = [a \in Agents |-> st[a].pid]
          /\ fd = [a \in Agents |-> st[a].fd]
          /\ process_running = [a \in Agents |-> st[a].running]
          /\ alive = [a \in Agents |-> st[a].alive]
          /\ slave_open = [a \in Agents |-> st[a].alive]
          /\ heartbeat_running = [a \in Agents |-> a = "codex" /\ st[a] = Started]
    /\ ThreadsInit
    /\ pty_closed = [a \in Agents |-> FALSE]
    /\ claude1 = "claude-1"
    /\ claude2 = IF "claude-2" \in registered THEN "claude-2" ELSE None
    /\ auto_orchestration = TRUE
    /\ MonitorInit
    /\ CollectorInit
    /\ history = <<>>
    /\ OrchInSession
    /\ LoopLocalsInit

Init ==
    /\ SessionInit
    /\ vocab = [a \in Agents |-> IF a = "claude-1" THEN PrimaryVocab ELSE SecondaryVocab]

Next ==
    \/ \E command \in Commands : Input(command)
    \/ LoopSend
    \/ CollectRead
    \/ CollectEnd
    \/ Route
    \/ Collect2Read
    \/ Collect2End
    \/ Forward
    \/ AfterLoop
    \/ \E a \in {"claude-1", "claude-2"} : ChildExit(a)

Spec == Init /\ [][Next]_vars

(***************************************************************************)
(* Properties of the orchestration loop.                                   *)
(***************************************************************************)
\* the number of writes of the current input that went to agent a
NumTo(a) == Cardinality({i \in 1..Len(sends) : sends[i] = a})

\* a step that writes to an agent
Sends == Len(sends') > Len(sends)

\* the cleaned reply the routing step is about to examine
RouteReply == CleanedOutput(current_command, output, current_agent)

\* the reply holds a completion marker
HasCompletion(s) == \E i \in 1..Len(s) : s[i] \in {"[COMPLETE]", "[DONE]"}

\* the reply holds a delegation marker: an accepted "@name:" with text after it
HasDelegation(s) == \E i \in 1..(Len(s) - 1) : s[i] \in CallHeads

\* the agent the first delegation marker of the reply names
DelegationTarget(s) ==
    LET i == CHOOSE i \in 1..(Len(s) - 1) :
                s[i] \in CallHeads /\ \A j \in 1..(i - 1) : s[j] \notin CallHeads
    IN  CallName(s[i])

\* the routing step examines a non-empty reply
Routing == pc = "route" /\ pc' # "route" /\ Strip(output) # <<>>

\* C1 as stated: for one operator input the loop writes to agents (primary or
\* secondary) at most B times in total.
C1_SendsAtMostBudget == Len(sends) <= MaxLoops

\* C1 as amended: the budget counts passes of the loop, not writes.  For one
\* operator input at most B writes go to the primary and at most B to the
\* delegation target, hence at most 2B writes in total.
C1_SendsAtMostTwiceBudget ==
    /\ NumTo("claude-1") <= MaxLoops
    /\ NumTo("claude-2") <= MaxLoops
    /\ Len(sends) <= 2 * MaxLoops
    /\ \A i \in 1..Len(sends) : sends[i] \in {"claude-1", "claude-2"}

\* C1 witness: an input for which every pass delegated, 2B writes in all
C1_Witness == pc = "forward" /\ Len(sends) = 2 * MaxLoops /\ loop_count = MaxLoops

\* C2: the loop counter always lies in 0..B, and once the B-th pass has ended
\* (the loop is back at its test, or past it, with the counter at B) no step
\* writes to any agent.
C2_CounterWithinBudget ==
    /\ [](loop_count \in 0..MaxLoops)
    /\ [][(loop_count = MaxLoops /\ pc \in {"loop", "after", "idle"}) => ~Sends]_vars

\* C2 witness: the B-th pass ended by a delegation and the loop is back at its test
C2_Witness == pc = "loop" /\ loop_count = MaxLoops /\ Len(sends) = 2 * MaxLoops

\* C3: when the cleaned reply holds [COMPLETE] or [DONE] the loop ends in that
\* pass with the final result presented and nothing written to any agent, also
\* when the reply holds a delegation marker naming the registered, running
\* secondary; and nothing is written afterwards until the next operator input.
C3_CompletionBeatsDelegation ==
    /\ [][(Routing /\ HasCompletion(RouteReply))
            => (pc' = "after" /\ outcome' = "complete" /\ sends' = sends)]_vars
    /\ [][(pc = "after") => (pc' \in {"after", "idle"} /\ sends' = sends)]_vars
    /\ [][(pc = "idle") => ~Sends]_vars

\* C3 witness: the loop ended on a reply holding both a completion marker and a
\* delegation to the running secondary
C3_Witness ==
    /\ pc = "after" /\ outcome = "complete"
    /\ HasCompletion(cleaned_output) /\ HasDelegation(cleaned_output)
    /\ DelegationTarget(cleaned_output) = "claude-2"
    /\ claude2 = "claude-2" /\ IsRunning("claude-2")
    /\ sends = <<"claude-1">>

\* C4: a reply of the primary that delegates to the running secondary and holds
\* no completion marker makes the loop write the task to the secondary; the
\* write that follows a write to the secondary goes to the primary with the
\* text built around the secondary's cleaned reply; the counter equals the
\* number of primary turns (plus the one whose write was refused), so the
\* sequence primary, secondary, primary ending in completion has counter 2.
C4_DelegationRoutesBack ==
    /\ [][(/\ Routing
           /\ ~HasCompletion(RouteReply)
           /\ HasDelegation(RouteReply)
           /\ DelegationTarget(RouteReply) = "claude-2"
           /\ claude2 = "claude-2" /\ IsRunning("claude-2"))
            => (/\ sends' = Append(sends, "claude-2")
                /\ last_sent' # <<>>
                /\ pc' = "collect2")]_vars
    /\ [][(Len(sends) > 0 /\ sends[Len(sends)] = "claude-2" /\ Sends)
            => (/\ sends' = Append(sends, "claude-1")
                /\ loop_count' = loop_count + 1
                /\ \E i \in 0..Len(last_sent') :
                      /\ i + Len(cleaned_output2) <= Len(last_sent')
                      /\ SubSeq(last_sent', i + 1, i + Len(cleaned_output2))
                            = cleaned_output2
                /\ last_sent' = <<"<claude-2 response:>", "\n", "\n">>
                      \o cleaned_output2 \o <<"\n", "\n", "<please continue>">>)]_vars
    /\ [](loop_count = NumTo("claude-1") + (IF outcome = "send_failed" THEN 1 ELSE 0))
    /\ []((outcome = "complete" /\ sends = <<"claude-1", "claude-2", "claude-1">>)
            => loop_count = 2)

\* C4 witness: one delegation, then a completing reply
C4_Witness ==
    /\ pc = "after" /\ outcome = "complete"
    /\ sends = <<"claude-1", "claude-2", "claude-1">>
    /\ loop_count = 2

\* C5: when the agent a reply delegates to is not registered or not running,
\* the loop warns, writes nothing to it or to any other agent, and ends in
\* that pass.
C5_UnavailableTargetStops ==
    /\ [][(/\ Routing
           /\ ~HasCompletion(RouteReply)
           /\ HasDelegation(RouteReply)
           /\ LET target == DelegationTarget(RouteReply)
              IN  target \notin registered \/ ~IsRunning(target))
            => (/\ sends' = sends
                /\ pc' = "after"
                /\ outcome' \in {"not_available", "call_failed"})]_vars
    /\ [][(pc = "after" /\ outcome \in {"not_available", "call_failed"})
            => (pc' \in {"after", "idle"} /\ sends' = sends)]_vars

\* C5 witness: the loop ended on a delegation to a secondary that was
\* registered but never started
C5_Witness ==
    /\ pc = "after" /\ outcome = "call_failed"
    /\ "claude-2" \in registered /\ fd["claude-2"] = None
    /\ DelegationTarget(cleaned_output) = "claude-2"
    /\ sends = <<"claude-1">>

\* C6: a non-empty cleaned reply with neither a completion marker nor a
\* delegation marker makes the loop warn and end in that pass, nothing written.
C6_NoMarkerStops ==
    /\ [][(/\ Routing
           /\ RouteReply # <<>>
           /\ ~HasCompletion(RouteReply)
           /\ ~HasDelegation(RouteReply))
            => (pc' = "after" /\ outcome' = "no_marker" /\ sends' = sends)]_vars
    /\ [][(pc = "after" /\ outcome = "no_marker")
            => (pc' \in {"after", "idle"} /\ sends' = sends)]_vars

\* C6 witness: the loop ended on a reply of plain text
C6_Witness ==
    /\ pc = "after" /\ outcome = "no_marker"
    /\ cleaned_output # <<>>
    /\ ~HasCompletion(cleaned_output) /\ ~HasDelegation(cleaned_output)

(***************************************************************************)
(* The routing step applied to an arbitrary reply of the primary: the      *)
(* first pass of the loop has sent the operator's text and collected a     *)
(* reply, drawn here from every text of at most MaxText tokens.            *)
(***************************************************************************)
MaxText == 4
RouteVocab == {CompleteMarker, DoneMarker, "x", " ", "\n"}
Texts == UNION {[1..k -> RouteVocab] : k \in 1..MaxText}

InitRoute ==
    /\ registered = {"claude-1", "claude-2"}
    /\ pid = [a \in Agents |-> IF a \in registered THEN Started.pid ELSE NotFound.pid]
    /\ fd = [a \in Agents |-> IF a \in registered THEN Started.fd ELSE NotFound.fd]
    /\ process_running = [a \in Agents |-> a \in registered]
    /\ alive = [a \in Agents |-> a \in registered]
    /\ slave_open = [a \in Agents |-> a \in registered]
    /\ heartbeat_running = [a \in Agents |-> FALSE]
    /\ ThreadsInit
    /\ pty_closed = [a \in Agents |-> FALSE]
    /\ vocab = [a \in Agents |-> RouteVocab]
    /\ claude1 = "claude-1"
    /\ claude2 = "claude-2"
    /\ auto_orchestration = TRUE
    /\ MonitorInit
    /\ CollectorInit
    /\ history = <<UserMessage>>
    /\ OrchInSession
    /\ pc = "route"
    /\ loop_count = 1
    /\ current_agent = "claude-1"
    /\ current_command = SystemInstruction \o <<"x">>
    /\ output \in Texts
    /\ idle_checks = 0
    /\ cleaned_output = <<>>
    /\ final_result = <<>>
    /\ task = <<>>
    /\ claude2_output = <<>>
    /\ idle_checks2 = 0
    /\ cleaned_output2 = <<>>
    /\ sends = <<"claude-1">>
    /\ last_sent = SystemInstruction \o <<"x">>
    /\ outcome = "running"
    /\ budget_warned = FALSE

NextRoute ==
    \/ Route
    \/ AfterLoop

SpecRoute == InitRoute /\ [][NextRoute]_vars

\* the position of the first completion marker of either kind
FirstOfEither(s) ==
    CHOOSE i \in 1..Len(s) :
        /\ s[i] \in {"[COMPLETE]", "[DONE]"}
        /\ \A j \in 1..(i - 1) : s[j] \notin {"[COMPLETE]", "[DONE]"}

\* the position of the first occurrence of the marker m
FirstOf(s, m) == CHOOSE i \in 1..Len(s) : s[i] = m /\ \A j \in 1..(i - 1) : s[j] # m

\* the text after position i
After(s, i) == SubSeq(s, i + 1, Len(s))

\* text without its leading and trailing whitespace tokens
Trimmed(s) ==
    IF \A i \in 1..Len(s) : s[i] \in {" ", "\n"} THEN <<>>
    ELSE LET a == CHOOSE a \in 1..Len(s) :
                    s[a] \notin {" ", "\n"} /\ \A j \in 1..(a - 1) : s[j] \in {" ", "\n"}
             b == CHOOSE b \in 1..Len(s) :
                    s[b] \notin {" ", "\n"} /\ \A j \in (b + 1)..Len(s) : s[j] \in {" ", "\n"}
         IN  SubSeq(s, a, b)

\* C7 as stated: the final result is the trimmed text after the first
\* completion marker of the cleaned reply, whichever of [COMPLETE] and [DONE]
\* comes first.
C7_AfterFirstOfEither ==
    (pc = "after" /\ outcome = "complete")
        => final_result = Trimmed(After(cleaned_output, FirstOfEither(cleaned_output)))

\* C7 as amended: the final result is the trimmed text after the first
\* [COMPLETE] when the cleaned reply holds [COMPLETE], and otherwise the
\* trimmed text after the first [DONE].
C7_AfterCompleteElseDone ==
    (pc = "after" /\ outcome = "complete")
        => final_result =
              IF \E i \in 1..Len(cleaned_output) : cleaned_output[i] = "[COMPLETE]"
              THEN Trimmed(After(cleaned_output, FirstOf(cleaned_output, "[COMPLETE]")))
              ELSE Trimmed(After(cleaned_output, FirstOf(cleaned_output, "[DONE]")))

\* C7 witness: a reply with [DONE], text, then [COMPLETE] and text
C7_Witness ==
    /\ pc = "after" /\ outcome = "complete"
    /\ cleaned_output = <<"[DONE]", "x", "[COMPLETE]", "x">>
    /\ final_result = <<"x">>

\* C8: when nothing but whitespace follows the completion marker, the final
\* result is the full cleaned reply.
C8_NothingFollowsGivesReply ==
    (/\ pc = "after" /\ outcome = "complete"
     /\ Trimmed(After(cleaned_output, FirstOfEither(cleaned_output))) = <<>>)
        => final_result = cleaned_output

(***************************************************************************)
(* One agent and the threads that work on it, statement by statement:      *)
(* read_output called from the main thread and from the monitor thread,    *)
(* the heartbeat thread, and terminate() called from shutdown().           *)
(***************************************************************************)
MaxTerminates == 2

\* the agent the threads work on
Subject == "claude-1"

\* the statements of read_output a caller can be at
ReaderAt(t, at) == reader[t] = at
ReaderTo(t, at) == reader' = [reader EXCEPT ![t] = at]

\* read_output goes on to its next statement
Continue(t, at) ==
    /\ ReaderTo(t, at)
    /\ UNCHANGED <<out, received, discarded>>

\* read_output returns its local output: the collector on the main thread
\* appends it to the reply (lines 723-726), the monitor thread only looks
\* for a background tag in it and drops it (lines 881-884)
Return(t) ==
    /\ ReaderTo(t, "idle")
    /\ out' = [out EXCEPT ![t] = <<>>]
    /\ IF t = "main"
       THEN received' = received \o out[t] /\ UNCHANGED discarded
       ELSE discarded' = discarded \o out[t] /\ UNCHANGED received

\* the main thread calls read_output (the collectors, lines 723 and 796)
ReadBegin ==
    /\ ReaderAt("main", "idle")
    /\ term = "none" /\ terminations = 0
    /\ pid[Subject] # None
    /\ Continue("main", "swap")
    /\ UNCHANGED <<agentVars, sessionVars, orchVars, loopVars>>
    /\ UNCHANGED <<slave_open, heartbeat_running, heartbeat, term, terminations, closes>>
    /\ UNCHANGED <<pty, produced, output_buffer, response>>

\* the monitor thread probes the agent and reads it while it runs (lines 853-882)
MonitorProbe ==
    /\ ReaderAt("monitor", "idle")
    /\ ~(terminations > 0 /\ term = "none")
    /\ pid[Subject] # None
    /\ process_running' = AfterIsRunning(Subject, process_running)
    /\ IF IsRunning(Subject) THEN ReaderTo("monitor", "swap")
                             ELSE UNCHANGED reader
    /\ UNCHANGED <<registered, pid, fd, pty_closed, alive, vocab>>
    /\ UNCHANGED <<sessionVars, orchVars, loopVars>>
    /\ UNCHANGED <<slave_open, heartbeat_running, heartbeat, term, terminations, closes>>
    /\ UNCHANGED streamVars

\* read_output lines 288-290: take the buffer, under the lock
ReadSwap(t) ==
    /\ ReaderAt(t, "swap")
    /\ ReaderTo(t, "check_closed")
    /\ out' = [out EXCEPT ![t] = output_buffer[Subject]]
    /\ output_buffer' = [output_buffer EXCEPT ![Subject] = <<>>]
    /\ UNCHANGED <<agentVars, sessionVars, orchVars, loopVars>>
    /\ UNCHANGED <<slave_open, heartbeat_running, heartbeat, term, terminations, closes>>
    /\ UNCHANGED <<pty, produced, response, received, discarded>>

\* a read that does not look at pty_closed
ReadCheckClosedIgnored(t) ==
    /\ ReaderAt(t, "check_closed")
    /\ Continue(t, "probe")
    /\ UNCHANGED <<agentVars, sessionVars, orchVars, loopVars>>
    /\ UNCHANGED <<slave_open, heartbeat_running, heartbeat, term, terminations, closes>>
    /\ UNCHANGED <<pty, produced, output_buffer, response>>

\* read_output lines 293-294
ReadCheckClosed(t) ==
    /\ ReaderAt(t, "check_closed")
    /\ IF pty_closed[Subject] THEN Return(t) ELSE Continue(t, "probe")
    /\ UNCHANGED <<agentVars, sessionVars, orchVars, loopVars>>
    /\ UNCHANGED <<slave_open, heartbeat_running, heartbeat, term, terminations, closes>>
    /\ UNCHANGED <<pty, produced, output_buffer, response>>

\* read_output lines 297-298
ReadProbe(t) ==
    /\ ReaderAt(t, "probe")
    /\ process_running' = AfterIsRunning(Subject, process_running)
    /\ IF IsRunning(Subject) THEN Continue(t, "poll") ELSE Return(t)
    /\ UNCHANGED <<registered, pid, fd, pty_closed, alive, vocab>>
    /\ UNCHANGED <<sessionVars, orchVars, loopVars>>
    /\ UNCHANGED <<slave_open, heartbeat_running, heartbeat, term, terminations, closes>>
    /\ UNCHANGED <<pty, produced, output_buffer, response>>

\* read_output lines 304-332: one round of the polling loop reads what the
\* child has written, or the loop ends on its timeout, or a read fails with
\* EIO because the slave side is closed and nothing is left to read
ReadPoll(t) ==
    /\ ReaderAt(t, "poll")
    /\ \/ /\ pty # <<>>
          /\ out' = [out EXCEPT ![t] = out[t] \o pty]
          /\ pty' = <<>>
          /\ UNCHANGED <<reader, received, discarded>>
       \/ Return(t) /\ UNCHANGED pty
       \/ /\ ~slave_open[Subject] /\ pty = <<>>
          /\ Continue(t, "eio_probe")
          /\ UNCHANGED pty
    /\ UNCHANGED <<agentVars, sessionVars, orchVars, loopVars>>
    /\ UNCHANGED <<slave_open, heartbeat_running, heartbeat, term, terminations, closes>>
    /\ UNCHANGED <<produced, output_buffer, response>>

\* read_output line 324
ReadEioProbe(t) ==
    /\ ReaderAt(t, "eio_probe")
    /\ process_running' = AfterIsRunning(Subject, process_running)
    /\ IF IsRunning(Subject) THEN Return(t) ELSE Continue(t, "test_closed")
    /\ UNCHANGED <<registered, pid, fd, pty_closed, alive, vocab>>
    /\ UNCHANGED <<sessionVars, orchVars, loopVars>>
    /\ UNCHANGED <<slave_open, heartbeat_running, heartbeat, term, terminations, closes>>
    /\ UNCHANGED <<pty, produced, output_buffer, response>>

\* read_output line 325
ReadTestClosed(t) ==
    /\ ReaderAt(t, "test_closed")
    /\ IF pty_closed[Subject] THEN Return(t) ELSE Continue(t, "set_closed")
    /\ UNCHANGED <<agentVars, sessionVars, orchVars, loopVars>>
    /\ UNCHANGED <<slave_open, heartbeat_running, heartbeat, term, terminations, closes>>
    /\ UNCHANGED <<pty, produced, output_buffer, response>>

\* read_output line 327
ReadSetClosed(t) ==
    /\ ReaderAt(t, "set_closed")
    /\ pty_closed' = [pty_closed EXCEPT ![Subject] = TRUE]
    /\ Continue(t, "clear_running")
    /\ UNCHANGED <<registered, pid, fd, process_running, alive, vocab>>
    /\ UNCHANGED <<sessionVars, orchVars, loopVars>>
    /\ UNCHANGED <<slave_open, heartbeat_running, heartbeat, term, terminations, closes>>
    /\ UNCHANGED <<pty, produced, output_buffer, response>>

\* read_output lines 328-329 and the return at line 351
ReadClearRunning(t) ==
    /\ ReaderAt(t, "clear_running")
    /\ process_running' = [process_running EXCEPT ![Subject] = FALSE]
    /\ Return(t)
    /\ UNCHANGED <<registered, pid, fd, pty_closed, alive, vocab>>
    /\ UNCHANGED <<sessionVars, orchVars, loopVars>>
    /\ UNCHANGED <<slave_open, heartbeat_running, heartbeat, term, terminations, closes>>
    /\ UNCHANGED <<pty, produced, output_buffer, response>>

\* heartbeat, line 372: while self.heartbeat_running and self.is_running()
HeartbeatTest ==
    /\ heartbeat = "test"
    /\ IF ~heartbeat_running[Subject]
       THEN heartbeat' = "stopped" /\ UNCHANGED process_running
       ELSE /\ process_running' = AfterIsRunning(Subject, process_running)
            /\ heartbeat' = IF IsRunning(Subject) THEN "beat" ELSE "stopped"
    /\ UNCHANGED <<registered, pid, fd, pty_closed, alive, vocab>>
    /\ UNCHANGED <<sessionVars, orchVars, loopVars>>
    /\ UNCHANGED <<slave_open, heartbeat_running, reader, term, terminations, closes>>
    /\ UNCHANGED streamVars

\* heartbeat, lines 373-378: no beat is due, or one is due and the thread
\* tests `self.fd and not self.pty_closed`
HeartbeatBeat ==
    /\ heartbeat = "beat"
    /\ \/ heartbeat' = "test"
       \/ heartbeat' = IF fd[Subject] # None /\ ~pty_closed[Subject] THEN "write" ELSE "test"
    /\ UNCHANGED <<agentVars, sessionVars, orchVars, loopVars>>
    /\ UNCHANGED <<slave_open, heartbeat_running, reader, term, terminations, closes>>
    /\ UNCHANGED streamVars

\* heartbeat, lines 380-396: the newline is written and what the child has
\* written is read (line 385), or the write fails with EIO and the thread ends
HeartbeatWrite ==
    /\ heartbeat = "write"
    /\ \/ /\ response' = pty
          /\ pty' = <<>>
          /\ heartbeat' = IF pty # <<>> THEN "append" ELSE "test"
       \/ /\ ~slave_open[Subject]
          /\ heartbeat' = "stopped"
          /\ UNCHANGED <<pty, response>>
    /\ UNCHANGED <<agentVars, sessionVars, orchVars, loopVars>>
    /\ UNCHANGED <<slave_open, heartbeat_running, reader, term, terminations, closes>>
    /\ UNCHANGED <<produced, output_buffer, out, received, discarded>>

\* heartbeat, lines 385-387: append what was read to the buffer, under the lock
HeartbeatAppend ==
    /\ heartbeat = "append"
    /\ output_buffer' = [output_buffer EXCEPT ![Subject] = output_buffer[Subject] \o response]
    /\ response' = <<>>
    /\ heartbeat' = "test"
    /\ UNCHANGED <<agentVars, sessionVars, orchVars, loopVars>>
    /\ UNCHANGED <<slave_open, heartbeat_running, reader, term, terminations, closes>>
    /\ UNCHANGED <<pty, produced, out, received, discarded>>

\* shutdown() calls terminate(), from the signal handler (which abandons what
\* the main thread was doing) or from main's finally block; lines 417-418
TerminateBegin ==
    /\ term = "none"
    /\ terminations < MaxTerminates
    /\ reader' = [reader EXCEPT !["main"] = "idle"]
    /\ out' = [out EXCEPT !["main"] = <<>>]
    /\ IF pid[Subject] = None
       THEN terminations' = terminations + 1 /\ UNCHANGED term
       ELSE term' = "stop_heartbeat" /\ UNCHANGED terminations
    /\ UNCHANGED <<agentVars, sessionVars, orchVars, loopVars>>
    /\ UNCHANGED <<slave_open, heartbeat_running, heartbeat, closes>>
    /\ UNCHANGED <<pty, produced, output_buffer, response, received, discarded>>

\* terminate line 421, _stop_heartbeat lines 409-412 (the join gives up after 2 s)
TerminateStopHeartbeat ==
    /\ term = "stop_heartbeat"
    /\ heartbeat_running' = [heartbeat_running EXCEPT ![Subject] = FALSE]
    /\ term' = "sigterm"
    /\ UNCHANGED <<agentVars, sessionVars, orchVars, loopVars>>
    /\ UNCHANGED <<slave_open, reader, heartbeat, terminations, closes>>
    /\ UNCHANGED streamVars

\* terminate line 425: SIGTERM, which fails when the child has left the
\* process table
TerminateSigterm ==
    /\ term = "sigterm"
    /\ term' = IF alive[Subject] THEN "wait" ELSE "finally"
    /\ UNCHANGED <<agentVars, sessionVars, orchVars, loopVars>>
    /\ UNCHANGED <<slave_open, heartbeat_running, reader, heartbeat, terminations, closes>>
    /\ UNCHANGED streamVars

\* terminate lines 428-431: one probe of the waiting loop, which ends when the
\* probe fails or after the twentieth round
TerminateWait ==
    /\ term = "wait"
    /\ process_running' = AfterIsRunning(Subject, process_running)
    /\ IF IsRunning(Subject) THEN term' \in {"wait", "recheck"} ELSE term' = "recheck"
    /\ UNCHANGED <<registered, pid, fd, pty_closed, alive, vocab>>
    /\ UNCHANGED <<sessionVars, orchVars, loopVars>>
    /\ UNCHANGED <<slave_open, heartbeat_running, reader, heartbeat, terminations, closes>>
    /\ UNCHANGED streamVars

\* terminate lines 434-435: SIGKILL when the child is still there
TerminateRecheck ==
    /\ term = "recheck"
    /\ process_running' = AfterIsRunning(Subject, process_running)
    /\ slave_open' = IF IsRunning(Subject) THEN [slave_open EXCEPT ![Subject] = FALSE]
                     ELSE slave_open
    /\ term' = "finally"
    /\ UNCHANGED <<registered, pid, fd, pty_closed, alive, vocab>>
    /\ UNCHANGED <<sessionVars, orchVars, loopVars>>
    /\ UNCHANGED <<heartbeat_running, reader, heartbeat, terminations, closes>>
    /\ UNCHANGED streamVars

\* terminate lines 442-443: the finally clause, then the return
TerminateFinally ==
    /\ term = "finally"
    /\ process_running' = [process_running EXCEPT ![Subject] = FALSE]
    /\ term' = "none"
    /\ terminations' = terminations + 1
    /\ UNCHANGED <<registered, pid, fd, pty_closed, alive, vocab>>
    /\ UNCHANGED <<sessionVars, orchVars, loopVars>>
    /\ UNCHANGED <<slave_open, heartbeat_running, reader, heartbeat, closes>>
    /\ UNCHANGED streamVars

MaxBytes == 2

\* the child writes its next byte to the PTY
ChildProduces ==
    /\ slave_open[Subject]
    /\ produced < MaxBytes
    /\ produced' = produced + 1
    /\ pty' = Append(pty, produced + 1)
    /\ UNCHANGED <<agentVars, sessionVars, orchVars, loopVars>>
    /\ UNCHANGED <<slave_open, heartbeat_running, reader, heartbeat, term, terminations,
                   closes>>
    /\ UNCHANGED <<output_buffer, out, response, received, discarded>>

\* the child exits: the slave side of the PTY closes, the child stays in the
\* process table until it is reaped
ChildDies ==
    /\ slave_open[Subject]
    /\ slave_open' = [slave_open EXCEPT ![Subject] = FALSE]
    /\ UNCHANGED <<agentVars, sessionVars, orchVars, loopVars>>
    /\ UNCHANGED <<heartbeat_running, reader, heartbeat, term, terminations, closes>>
    /\ UNCHANGED streamVars

\* the exited child is reaped: from now on the signal-0 probe fails
ChildReaped ==
    /\ ~slave_open[Subject] /\ alive[Subject]
    /\ alive' = [alive EXCEPT ![Subject] = FALSE]
    /\ UNCHANGED <<registered, pid, fd, process_running, pty_closed, vocab>>
    /\ UNCHANGED <<sessionVars, orchVars, loopVars>>
    /\ UNCHANGED <<slave_open, heartbeat_running, reader, heartbeat, term, terminations,
                   closes>>
    /\ UNCHANGED streamVars

\* the agent after start_all: started (with the heartbeat thread when its
\* command is codex), or not started because its command was not found
InitAgent ==
    /\ \E st \in {Started, NotFound}, hb \in BOOLEAN :
          /\ st = NotFound => ~hb
          /\ pid = [a \in Agents |-> IF a = Subject THEN st.pid ELSE None]
          /\ fd = [a \in Agents |-> IF a = Subject THEN st.fd ELSE None]
          /\ process_running = [a \in Agents |-> a = Subject /\ st.running]
          /\ alive = [a \in Agents |-> a = Subject /\ st.alive]
          /\ slave_open = [a \in Agents |-> a = Subject /\ st.alive]
          /\ heartbeat_running = [a \in Agents |-> a = Subject /\ hb]
          /\ heartbeat = IF hb THEN "test" ELSE "off"
    /\ registered = {Subject}
    /\ pty_closed = [a \in Agents |-> FALSE]
    /\ vocab = [a \in Agents |-> SecondaryVocab]
    /\ claude1 = Subject
    /\ claude2 = None
    /\ auto_orchestration = TRUE
    /\ MonitorInit
    /\ CollectorInit
    /\ history = <<>>
    /\ reader = [t \in Threads |-> "idle"]
    /\ term = "none"
    /\ terminations = 0
    /\ closes = [a \in Agents |-> 0]
    /\ pty = <<>>
    /\ produced = 0
    /\ output_buffer = [a \in Agents |-> <<>>]
    /\ out = [t \in Threads |-> <<>>]
    /\ response = <<>>
    /\ received = <<>>
    /\ discarded = <<>>
    /\ OrchInSession
    /\ LoopLocalsInit

NextAgent ==
    \/ ReadBegin
    \/ MonitorProbe
    \/ \E t \in Threads : ReadSwap(t)
    \/ \E t \in Threads : ReadCheckClosed(t)
    \/ \E t \in Threads : ReadProbe(t)
    \/ \E t \in Threads : ReadPoll(t)
    \/ \E t \in Threads : ReadEioProbe(t)
    \/ \E t \in Threads : ReadTestClosed(t)
    \/ \E t \in Threads : ReadSetClosed(t)
    \/ \E t \in Threads : ReadClearRunning(t)
    \/ HeartbeatTest
    \/ HeartbeatBeat
    \/ HeartbeatWrite
    \/ HeartbeatAppend
    \/ TerminateBegin
    \/ TerminateStopHeartbeat
    \/ TerminateSigterm
    \/ TerminateWait
    \/ TerminateRecheck
    \/ TerminateFinally
    \/ ChildProduces
    \/ ChildDies
    \/ ChildReaped

SpecAgent == InitAgent /\ [][NextAgent]_vars

\* C9: for every agent, in every reachable state of every interleaving of the
\* main thread's read with the monitor and heartbeat threads, pty_closed
\* implies that process_running is false.
C9_ClosedImpliesNotRunning ==
    \A a \in Agents : pty_closed[a] => ~process_running[a]

\* C9 witness: the main thread has just set pty_closed (line 327) and has not
\* reached line 328, while the monitor thread is inside the same branch
C9_Witness ==
    /\ pty_closed[Subject]
    /\ reader["main"] = "clear_running"
    /\ reader["monitor"] = "test_closed"

\* C10: for a started agent the PTY master fd is closed exactly once, by the
\* time terminate() returns, and never a second time when terminate() runs
\* again.
C10_ClosedOnceByTerminate ==
    \A a \in Agents :
        /\ closes[a] <= 1
        /\ (a = Subject /\ pid[a] # None /\ terminations >= 1 /\ term = "none")
              => closes[a] = 1

\* the bytes of a sequence
Range(q) == {q[i] : i \in 1..Len(q)}

\* the bytes that have reached the collector or are still on their way to it:
\* unread in the PTY, in the buffer, in the heartbeat's hands on their way to
\* the buffer, or in the hands of the main thread's read_output
OnTheWay ==
    Range(pty) \cup Range(output_buffer[Subject]) \cup Range(response)
        \cup Range(out["main"]) \cup Range(received)

\* C11: only the collector's read path drains an agent's buffer and PTY
\* output: while the main thread is collecting, no byte the child produced is
\* taken away by a background thread, so each is received or still on its way.
C11_OnlyCollectorDrains ==
    (term = "none" /\ terminations = 0) => \A k \in 1..produced : k \in OnTheWay

\* C12: the collector receives the bytes of one agent in the order the child
\* produced them, in every interleaving of the heartbeat and the main
\* thread's read.
C12_ReceivedInOrder ==
    \A i, j \in 1..Len(received) : i < j => received[i] < received[j]

\* the agent whose reply a collector is gathering, if any
Driven ==
    IF pc = "collect" THEN {current_agent}
    ELSE IF pc = "collect2" THEN {claude2}
    ELSE {}

\* C13: turns are dispatched one after the other.  A write to an agent begins
\* only when no collector is at work, it is a single write, and it starts the
\* collection of that agent's reply; while a collector is at work the agent
\* it reads is the one written to last.
C13_TurnsSequential ==
    /\ [][Sends => (/\ Driven = {}
                    /\ Len(sends') = Len(sends) + 1
                    /\ Driven' = {sends'[Len(sends')]})]_vars
    /\ [](Driven # {} => (sends # <<>> /\ Driven = {sends[Len(sends)]}))
    /\ [](Cardinality(Driven) <= 1)

\* C13 witness: the turn of the secondary is in progress after the primary's
C13_Witness ==
    /\ pc = "collect2"
    /\ sends = <<"claude-1", "claude-2">>
    /\ claude2_output # <<>>

(***************************************************************************)
(* Progress of the loop.  The main thread keeps running: every sleep and   *)
(* every read_output call is bounded in time, so whenever a step of the    *)
(* loop is possible one is eventually taken.  Nothing is assumed of the    *)
(* operator or of the agents' children.  The routing step and the          *)
(* forwarding step are straight-line code, possible whenever the thread is *)
(* at them; their fairness is stated on the move of pc they make.          *)
(***************************************************************************)
MainThread ==
    \/ LoopSend
    \/ CollectRead
    \/ CollectEnd
    \/ Collect2Read
    \/ Collect2End
    \/ AfterLoop

RouteRuns == pc = "route" /\ pc' \in {"after", "collect2"}

ForwardRuns == pc = "forward" /\ pc' = "loop"

\* what the agents may say, for the progress properties: a completion, a
\* delegation, plain text; silence and a crash are always possible
LivePrimaryVocab == {CompleteMarker, "@claude-2:", "x"}
LiveSecondaryVocab == {"x"}

InitLive ==
    /\ SessionInit
    /\ vocab = [a \in Agents |->
                   IF a = "claude-1" THEN LivePrimaryVocab ELSE LiveSecondaryVocab]

SpecLive ==
    /\ InitLive /\ [][Next]_vars
    /\ WF_vars(MainThread)
    /\ WF_pc(RouteRuns)
    /\ WF_pc(ForwardRuns)

RegisterAgentOverwrites(name, command) ==
    /\ main = "register"
    /\ handler = "none"
    /\ register_result' = <<name \notin registered>>
    /\ registered' = registered \cup {name}
    /\ cli_command' = [cli_command EXCEPT ![name] = command]
    /\ UNCHANGED <<pid, fd, process_running, pty_closed, alive, vocab>>
    /\ UNCHANGED <<sessionVars, loopVars, threadVars>>
    /\ UNCHANGED <<running, main, exit_code, handler, attempted, starting,
                   success_count, start_ok, start_all_result, todo, terminated>>

\* lines 464-481: register_agent, as main() calls it (lines 1548, 1552-1553)
RegisterAgent(name, command) ==
    /\ main = "register"
    /\ handler = "none"
    /\ IF name \in registered
       THEN /\ register_result' = <<FALSE>>
            /\ UNCHANGED <<registered, cli_command>>
       ELSE /\ registered' = registered \cup {name}
            /\ cli_command' = [cli_command EXCEPT ![name] = command]
            /\ register_result' = <<TRUE>>
    /\ UNCHANGED <<pid, fd, process_running, pty_closed, alive, vocab>>
    /\ UNCHANGED <<sessionVars, loopVars, threadVars>>
    /\ UNCHANGED <<running, main, exit_code, handler, attempted, starting,
                   success_count, start_ok, start_all_result, todo, terminated>>

\* lines 1557, 483-488: main() calls start_all
StartAllBegin ==
    /\ main = "register"
    /\ handler = "none"
    /\ main' = "start"
    /\ attempted' = {}
    /\ success_count' = 0
    /\ UNCHANGED <<agentVars, sessionVars, loopVars, threadVars>>
    /\ UNCHANGED <<cli_command, running, exit_code, handler, starting, start_ok,
                   register_result, start_all_result, todo, terminated>>

\* a start_all that calls start() on agents it has started before
StartCallAgain(a) ==
    /\ main = "start"
    /\ handler = "none"
    /\ starting = None
    /\ a \in registered
    /\ attempted' = attempted \cup {a}
    /\ \/ UNCHANGED <<pid, fd, alive, slave_open, starting>>
       \/ /\ pid' = [pid EXCEPT ![a] = Started.pid]
          /\ fd' = [fd EXCEPT ![a] = Started.fd]
          /\ alive' = [alive EXCEPT ![a] = TRUE]
          /\ slave_open' = [slave_open EXCEPT ![a] = TRUE]
          /\ starting' = a
    /\ UNCHANGED <<registered, process_running, pty_closed, vocab>>
    /\ UNCHANGED <<sessionVars, loopVars>>
    /\ UNCHANGED <<heartbeat_running, reader, heartbeat, term, terminations, closes,
                   streamVars>>
    /\ UNCHANGED <<cli_command, running, main, exit_code, handler, success_count,
                   start_ok, register_result, start_all_result, todo, terminated>>

\* lines 490-491, 77-91: start() of the next agent is called; the command is
\* not found and start() returns False, or the child is forked
StartCall(a) ==
    /\ main = "start"
    /\ handler = "none"
    /\ starting = None
    /\ a \in registered \ attempted
    /\ attempted' = attempted \cup {a}
    /\ \/ UNCHANGED <<pid, fd, alive, slave_open, starting>>
       \/ /\ pid' = [pid EXCEPT ![a] = Started.pid]
          /\ fd' = [fd EXCEPT ![a] = Started.fd]
          /\ alive' = [alive EXCEPT ![a] = TRUE]
          /\ slave_open' = [slave_open EXCEPT ![a] = TRUE]
          /\ starting' = a
    /\ UNCHANGED <<registered, process_running, pty_closed, vocab>>
    /\ UNCHANGED <<sessionVars, loopVars>>
    /\ UNCHANGED <<heartbeat_running, reader, heartbeat, term, terminations, closes,
                   streamVars>>
    /\ UNCHANGED <<cli_command, running, main, exit_code, handler, success_count,
                   start_ok, register_result, start_all_result, todo, terminated>>

\* a start() that goes on without looking whether the child has exited
StartReturnUnchecked(ok) ==
    /\ main = "start"
    /\ handler = "none"
    /\ starting # None
    /\ IF ok
       THEN /\ process_running' = [process_running EXCEPT ![starting] = TRUE]
            /\ heartbeat_running' =
                  [heartbeat_running EXCEPT ![starting] = cli_command[starting] = "codex"]
            /\ success_count' = success_count + 1
            /\ start_ok' = start_ok \cup {starting}
       ELSE UNCHANGED <<process_running, heartbeat_running, success_count, start_ok>>
    /\ starting' = None
    /\ UNCHANGED <<registered, pid, fd, pty_closed, alive, vocab>>
    /\ UNCHANGED <<sessionVars, loopVars>>
    /\ UNCHANGED <<slave_open, reader, heartbeat, term, terminations, closes, streamVars>>
    /\ UNCHANGED <<cli_command, running, main, exit_code, handler, attempted,
                   register_result, start_all_result, todo, terminated>>

\* lines 93-246, 491-497: the rest of start(): when the child has exited
\* during the drain, the read fails with EIO or waitpid reports the exit (lines
\* 145-155, 189-197) and start() returns False; else it returns True with
\* process_running set (and the heartbeat started for codex), or False when an
\* exception was caught
StartReturn(ok) ==
    /\ main = "start"
    /\ handler = "none"
    /\ starting # None
    /\ ok => slave_open[starting]
    /\ IF ok
       THEN /\ process_running' = [process_running EXCEPT ![starting] = TRUE]
            /\ heartbeat_running' =
                  [heartbeat_running EXCEPT ![starting] = cli_command[starting] = "codex"]
            /\ success_count' = success_count + 1
            /\ start_ok' = start_ok \cup {starting}
       ELSE UNCHANGED <<process_running, heartbeat_running, success_count, start_ok>>
    /\ starting' = None
    /\ UNCHANGED <<registered, pid, fd, pty_closed, alive, vocab>>
    /\ UNCHANGED <<sessionVars, loopVars>>
    /\ UNCHANGED <<slave_open, reader, heartbeat, term, terminations, closes, streamVars>>
    /\ UNCHANGED <<cli_command, running, main, exit_code, handler, attempted,
                   register_result, start_all_result, todo, terminated>>

\* a loop over the agents that stops at the first start() that failed
StartAllLoopEndsAtFailure ==
    starting = None /\ (attempted = registered \/ attempted \ start_ok # {})

\* line 490: the loop over self.agents has visited every agent
StartAllLoopEnds == starting = None /\ attempted = registered

\* lines 499-512, 1558-1563: after the loop; with no agent started start_all
\* calls shutdown, else it sets running and returns True and the session begins
StartAllAfterLoop ==
    /\ main = "start"
    /\ handler = "none"
    /\ StartAllLoopEnds
    /\ IF success_count = 0
       THEN /\ main' = "start_shutdown"
            /\ todo' = [todo EXCEPT !["main"] = registered]
            /\ terminated' = [terminated EXCEPT !["main"] = {}]
            /\ UNCHANGED <<running, start_all_result>>
       ELSE /\ running' = TRUE
            /\ start_all_result' = <<TRUE>>
            /\ main' = "session"
            /\ UNCHANGED <<todo, terminated>>
    /\ UNCHANGED <<agentVars, sessionVars, loopVars, threadVars>>
    /\ UNCHANGED <<cli_command, exit_code, handler, attempted, starting, success_count,
                   start_ok, register_result>>

\* terminate() that clears process_running only when the probe after the kill
\* does
AfterTerminateNoFinally(a) ==
    IF pid[a] = None \/ ~alive[a] THEN process_running[a] ELSE FALSE

\* lines 415-443: terminate(), process_running after the call
AfterTerminate(a) == IF pid[a] = None THEN process_running[a] ELSE FALSE

\* lines 415-443: terminate() of one agent: nothing without a pid, else the
\* heartbeat is stopped and the child is signalled and gone
Terminate(a) ==
    /\ process_running' = [process_running EXCEPT ![a] = AfterTerminate(a)]
    /\ IF pid[a] = None
       THEN UNCHANGED <<heartbeat_running, alive, slave_open>>
       ELSE /\ heartbeat_running' = [heartbeat_running EXCEPT ![a] = FALSE]
            /\ alive' = [alive EXCEPT ![a] = FALSE]
            /\ slave_open' = [slave_open EXCEPT ![a] = FALSE]

\* the caller of shutdown whose code runs now
Active(c) ==
    IF c = "handler" THEN handler = "shutdown"
    ELSE handler = "none" /\ main \in {"start_shutdown", "finally"}

\* lines 522-523: one pass of the loop of shutdown
ShutdownTerminate(c, a) ==
    /\ Active(c)
    /\ a \in todo[c]
    /\ Terminate(a)
    /\ todo' = [todo EXCEPT ![c] = todo[c] \ {a}]
    /\ terminated' = [terminated EXCEPT ![c] = terminated[c] \cup {a}]
    /\ UNCHANGED <<registered, pid, fd, pty_closed, vocab>>
    /\ UNCHANGED <<sessionVars, loopVars>>
    /\ UNCHANGED <<reader, heartbeat, term, terminations, closes, streamVars>>
    /\ UNCHANGED <<cli_command, running, main, exit_code, handler, attempted, starting,
                   success_count, start_ok, register_result, start_all_result>>

\* lines 525-526: shutdown called by main() returns; after a failed start_all
\* (lines 501-502, 1558-1560) start_all returns False and main() exits with 1,
\* in the finally clause (line 1576) the process exits with the status raised
\* before, or 0
ShutdownReturnsToMain ==
    /\ Active("main")
    /\ todo["main"] = {}
    /\ running' = FALSE
    /\ IF main = "start_shutdown"
       THEN /\ start_all_result' = <<FALSE>>
            /\ exit_code' = <<1>>
       ELSE /\ exit_code' = IF exit_code = <<>> THEN <<0>> ELSE exit_code
            /\ UNCHANGED start_all_result
    /\ main' = "exited"
    /\ UNCHANGED <<agentVars, sessionVars, loopVars, threadVars>>
    /\ UNCHANGED <<cli_command, handler, attempted, starting, success_count, start_ok,
                   register_result, todo, terminated>>

\* lines 1564-1576: the session ends: run() returns, /exit raises
\* SystemExit(0) (line 1006), or an exception makes main() raise SystemExit(1);
\* the finally clause calls shutdown
SessionEnds(status) ==
    /\ main = "session"
    /\ handler = "none"
    /\ exit_code' = status
    /\ main' = "finally"
    /\ todo' = [todo EXCEPT !["main"] = registered]
    /\ terminated' = [terminated EXCEPT !["main"] = {}]
    /\ UNCHANGED <<agentVars, sessionVars, loopVars, threadVars>>
    /\ UNCHANGED <<cli_command, running, handler, attempted, starting, success_count,
                   start_ok, register_result, start_all_result>>

\* lines 866, 353-364: a probe of an agent by the monitor thread
MonitorIsRunning(a) ==
    /\ main \in {"session", "finally"}
    /\ a \in registered
    /\ process_running' = AfterIsRunning(a, process_running)
    /\ UNCHANGED <<registered, pid, fd, pty_closed, alive, vocab>>
    /\ UNCHANGED <<sessionVars, orchVars, loopVars, threadVars>>

\* lines 455-461: a signal arrives and the handler calls shutdown
Signal ==
    /\ main # "exited"
    /\ handler = "none"
    /\ handler' = "shutdown"
    /\ todo' = [todo EXCEPT !["handler"] = registered]
    /\ terminated' = [terminated EXCEPT !["handler"] = {}]
    /\ UNCHANGED <<agentVars, sessionVars, loopVars, threadVars>>
    /\ UNCHANGED <<cli_command, running, main, exit_code, attempted, starting,
                   success_count, start_ok, register_result, start_all_result>>

\* lines 525-526, 461: shutdown called by the handler returns
ShutdownReturnsToHandler ==
    /\ Active("handler")
    /\ todo["handler"] = {}
    /\ running' = FALSE
    /\ handler' = "returned"
    /\ UNCHANGED <<agentVars, sessionVars, loopVars, threadVars>>
    /\ UNCHANGED <<cli_command, main, exit_code, attempted, starting, success_count,
                   start_ok, register_result, start_all_result, todo, terminated>>

\* line 462: sys.exit(0) in the handler; raised inside the session it passes
\* through the finally clause of main() (line 1576), elsewhere the process exits
HandlerExits ==
    /\ handler = "returned"
    /\ handler' = "none"
    /\ exit_code' = <<0>>
    /\ starting' = None
    /\ IF main = "session"
       THEN /\ main' = "finally"
            /\ todo' = [todo EXCEPT !["main"] = registered]
            /\ terminated' = [terminated EXCEPT !["main"] = {}]
       ELSE /\ main' = "exited"
            /\ UNCHANGED <<todo, terminated>>
    /\ UNCHANGED <<agentVars, sessionVars, loopVars, threadVars>>
    /\ UNCHANGED <<cli_command, running, attempted, success_count, start_ok,
                   register_result, start_all_result>>

\* lines 1535, 448-456, 53-75: the orchestrator just built, no agent yet
InitOrch ==
    /\ registered = {}
    /\ cli_command = [a \in Agents |-> None]
    /\ pid = [a \in Agents |-> NotFound.pid]
    /\ fd = [a \in Agents |-> NotFound.fd]
    /\ process_running = [a \in Agents |-> FALSE]
    /\ alive = [a \in Agents |-> FALSE]
    /\ slave_open = [a \in Agents |-> FALSE]
    /\ heartbeat_running = [a \in Agents |-> FALSE]
    /\ pty_closed = [a \in Agents |-> FALSE]
    /\ vocab = [a \in Agents |-> SecondaryVocab]
    /\ ThreadsInit
    /\ claude1 = None
    /\ claude2 = None
    /\ auto_orchestration = TRUE
    /\ MonitorInit
    /\ CollectorInit
    /\ history = <<>>
    /\ LoopLocalsInit
    /\ running = FALSE
    /\ main = "register"
    /\ exit_code = <<>>
    /\ handler = "none"
    /\ attempted = {}
    /\ starting = None
    /\ success_count = 0
    /\ start_ok = {}
    /\ register_result = <<>>
    /\ start_all_result = <<>>
    /\ todo = [c \in Callers |-> {}]
    /\ terminated = [c \in Callers |-> {}]

NextOrch ==
    \/ \E name \in Agents, command \in CliCommands : RegisterAgent(name, command)
    \/ StartAllBegin
    \/ \E a \in Agents : StartCall(a)
    \/ \E ok \in BOOLEAN : StartReturn(ok)
    \/ StartAllAfterLoop
    \/ \E c \in Callers, a \in Agents : ShutdownTerminate(c, a)
    \/ ShutdownReturnsToMain
    \/ \E status \in {<<>>, <<0>>, <<1>>} : SessionEnds(status)
    \/ \E a \in Agents : MonitorIsRunning(a)
    \/ Signal
    \/ ShutdownReturnsToHandler
    \/ HandlerExits
    \/ \E a \in Agents : ChildExit(a)

SpecOrch == InitOrch /\ [][NextOrch]_vars

\* C15: a register_agent call with a name that is already registered returns
\* failure and leaves the registry (the names, the agent held under each name
\* and that agent's state) as it was.
C15_DuplicateRegisterRefused ==
    [][\A name \in registered, command \in CliCommands :
          RegisterAgent(name, command) =>
              /\ register_result' = <<FALSE>>
              /\ registered' = registered
              /\ cli_command' = cli_command
              /\ <<pid, fd, process_running>>' = <<pid, fd, process_running>>]_vars

\* a second registration of claude-1, under another command, was refused
C15_Witness ==
    /\ main = "register"
    /\ register_result = <<FALSE>>
    /\ registered = {"claude-1"}
    /\ cli_command["claude-1"] = "codex"

\* C16: start_all calls start() on every registered agent whatever the earlier
\* calls returned, and it reports success exactly when at least one start()
\* succeeded; when none did it reports failure and the process exits with
\* status 1.
C16_StartAllTriesEveryAgent ==
    /\ start_all_result # <<>> =>
          /\ attempted = registered
          /\ start_all_result = <<start_ok # {}>>
    /\ (start_all_result = <<FALSE>> /\ main = "exited") => exit_code = <<1>>

\* start_all went on to claude-2 after the start of claude-1 had failed, and
\* reported success
C16_Witness ==
    /\ start_all_result = <<TRUE>>
    /\ registered = {"claude-1", "claude-2"}
    /\ start_ok = {"claude-2"}
    /\ pid["claude-1"] = None

\* C17: on SIGINT or SIGTERM the handler calls shutdown, which calls terminate()
\* on every registered agent before the process exits; when that shutdown
\* returns no registered agent has process_running set.
C17_ShutdownTerminatesAll ==
    /\ handler = "returned" =>
          \A a \in registered : a \in terminated["handler"] /\ ~process_running[a]
    /\ main = "exited" =>
          \A a \in registered :
             /\ a \in terminated["handler"] \cup terminated["main"]
             /\ ~process_running[a]

\* the handler's shutdown has returned during a session in which both agents
\* had been started, one of them had died unnoticed
C17_Witness ==
    /\ handler = "returned"
    /\ main = "session"
    /\ start_ok = {"claude-1", "claude-2"}
    /\ terminated["handler"] = {"claude-1", "claude-2"}

(***************************************************************************)
(* Failures inside a turn: a send that fails, a reply that is empty.       *)
(***************************************************************************)
\* the agent is not running: never started, no fd, or its child is gone
NotRunning(a) == fd[a] = None \/ pid[a] = None \/ ~alive[a]

\* the loop is about to write the current command to the current agent
PrimarySend == pc = "loop" /\ pc' # "loop" /\ LoopContinues(loop_count)

\* the routing step is about to write the task to the registered secondary
DelegateSend ==
    /\ Routing
    /\ ~HasCompletion(RouteReply)
    /\ HasDelegation(RouteReply)
    /\ DelegationTarget(RouteReply) = "claude-2"
    /\ claude2 # None

\* the turn ended on a send that failed
SendFailed == outcome \in {"send_failed", "call_failed"}

\* C18: a send to an agent that is not running (never started, fd not set, or
\* child no longer present) returns failure and writes nothing: every write
\* goes to an agent that has an fd and a pid and whose child is present.
C18_NoSendToStoppedAgent ==
    /\ [][Sends => ~NotRunning(sends'[Len(sends')])]_vars
    /\ [][(PrimarySend /\ NotRunning(current_agent))
            => (sends' = sends /\ outcome' = "send_failed")]_vars
    /\ [][(DelegateSend /\ NotRunning(claude2))
            => (sends' = sends /\ outcome' = "call_failed")]_vars

\* C18 witness: the first send of a turn was refused, the child of the primary
\* having gone after the input was taken
C18_Witness ==
    /\ pc = "after" /\ outcome = "send_failed"
    /\ sends = <<>>
    /\ fd["claude-1"] # None /\ ~alive["claude-1"]

\* C19: when the send to the current agent or to the delegation target fails,
\* the turn ends there: no collector runs, nothing more is written to any
\* agent, and the driver gets back to reading the operator's input.
C19_SendFailureAbortsTurn ==
    /\ [][((PrimarySend /\ ~SendCommand(current_agent))
             \/ (DelegateSend /\ ~SendCommand(claude2)))
            => (pc' = "after" /\ sends' = sends /\ SendFailed')]_vars
    /\ [][(pc = "after" /\ SendFailed)
            => (/\ pc' \in {"after", "idle"}
                /\ sends' = sends
                /\ output' = output
                /\ claude2_output' = claude2_output)]_vars
    /\ (pc = "after" /\ SendFailed) ~> (pc = "idle")

\* C19 witness: the driver is back at the input after the second send to the
\* primary, the answer of the secondary in hand, had failed
C19_Witness ==
    /\ pc = "idle" /\ outcome = "send_failed"
    /\ sends = <<"claude-1", "claude-2">>
    /\ loop_count = 2

\* C20: an empty (whitespace-only) reply, of the primary or of the delegated
\* secondary, ends the turn: after it nothing is written to any agent until
\* the next operator input.
C20_EmptyReplyAborts ==
    /\ [][(pc = "route" /\ pc' # "route" /\ Strip(output) = <<>>)
            => (pc' = "after" /\ sends' = sends)]_vars
    /\ [][(pc = "loop" /\ loop_count > 0 /\ Strip(claude2_output) = <<>>)
            => ~Sends]_vars

(***************************************************************************)
(* The session driver (InteractiveSession.run): one operator line at a     *)
(* time is read, trimmed and dispatched; the direct sends                  *)
(* (_send_to_claude2, _send_to_claude1) write once and collect the reply.  *)
(***************************************************************************)
\* line 1247: the lines of the secondary's reply that are shown
ShownLines == 20

\* filtered[-20:]
LastLines(lines, n) ==
    IF Len(lines) <= n THEN lines ELSE SubSeq(lines, Len(lines) - n + 1, Len(lines))

\* the label the direct send to the agent passes to _clean_output_lines
DirectLabel(a) == IF a = claude2 THEN "claude2" ELSE "claude1"

\* lines 1129-1141 and 1198-1210: the guard and the one write of a direct send
DirectSend(a, command) ==
    /\ IF a = None \/ ~IsRunning(a)
       THEN /\ process_running' =
                  IF a = None THEN process_running
                  ELSE AfterIsRunning(a, process_running)
            /\ outcome' = "unavailable"
            /\ sends' = <<>>
            /\ last_sent' = <<>>
            /\ UNCHANGED <<pc, current_agent, current_command>>
       ELSE /\ process_running' = AfterSendCommand(a, process_running)
            /\ current_agent' = a
            /\ current_command' = command
            /\ IF SendCommand(a)
               THEN /\ sends' = <<a>>
                    /\ last_sent' = command
                    /\ pc' = "direct"
                    /\ outcome' = "running"
               ELSE /\ sends' = <<>>
                    /\ last_sent' = <<>>
                    /\ outcome' = "send_failed"
                    /\ UNCHANGED pc
    /\ loop_count' = 0
    /\ output' = <<>>
    /\ idle_checks' = 0
    /\ cleaned_output' = <<>>
    /\ final_result' = <<>>
    /\ task' = <<>>
    /\ claude2_output' = <<>>
    /\ idle_checks2' = 0
    /\ cleaned_output2' = <<>>
    /\ budget_warned' = FALSE
    /\ UNCHANGED <<registered, pid, fd, pty_closed, alive, vocab, sessionVars, orchVars,
                   threadVars>>

\* lines 1151-1170 and 1220-1238: one pass of the collector of a direct send
DirectRead ==
    /\ pc = "direct"
    /\ idle_checks < MaxIdleChecks
    /\ \E chunk \in ReadOutput(current_agent, output) :
          IF chunk # <<>>
          THEN output' = output \o chunk /\ idle_checks' = 0
          ELSE output' = output /\ idle_checks' = idle_checks + 1
    /\ process_running' = AfterIsRunning(current_agent, process_running)
    /\ UNCHANGED <<registered, pid, fd, pty_closed, alive, vocab, sessionVars, orchVars,
                   threadVars>>
    /\ UNCHANGED <<pc, loop_count, current_agent, current_command, cleaned_output,
                   final_result, task, claude2_output, idle_checks2, cleaned_output2,
                   sends, last_sent, outcome, budget_warned>>

\* lines 1151, 1172-1194 and 1220, 1245-1270: the collector of a direct send
\* ends and the filtered reply is shown; control is back at the prompt
DirectEnd ==
    /\ pc = "direct"
    /\ idle_checks >= MaxIdleChecks \/ output # <<>> \/ idle_checks > 0
    /\ LET lines == Split(NormalizeNewlines(output), "\n")
           filtered == CleanOutputLines(current_command, lines,
                                        DirectLabel(current_agent))
           shown == IF current_agent = claude2 THEN LastLines(filtered, ShownLines)
                    ELSE filtered
       IN  IF Strip(output) = <<>>
           THEN cleaned_output' = <<>> /\ outcome' = "no_response"
           ELSE IF filtered = <<>>
           THEN cleaned_output' = <<>> /\ outcome' = "unparsed"
           ELSE cleaned_output' = Join(shown, "\n") /\ outcome' = "shown"
    /\ pc' = "idle"
    /\ output' = <<>>
    /\ idle_checks' = 0
    /\ UNCHANGED <<agentVars, sessionVars, orchVars, threadVars>>
    /\ UNCHANGED <<loop_count, current_agent, current_command, final_result, task,
                   claude2_output, idle_checks2, cleaned_output2, sends, last_sent,
                   budget_warned>>

\* lines 990-1054: _handle_command; /exit raises SystemExit(0), which the
\* finally clause of main() turns into shutdown; /auto on|off sets the flag;
\* the other commands show or store something and touch no agent
HandleCommand(cmd) ==
    LET cmd_name == IF Len(cmd) >= 2 THEN cmd[2] ELSE ""
        rest == IF Len(cmd) >= 3 THEN Strip(SubSeq(cmd, 3, Len(cmd))) ELSE <<>>
    IN  IF cmd_name = "exit"
        THEN SessionEnds(<<0>>)
        ELSE /\ auto_orchestration' =
                   IF cmd_name = "auto" /\ rest = <<"on">> THEN TRUE
                   ELSE IF cmd_name = "auto" /\ rest = <<"off">> THEN FALSE
                   ELSE auto_orchestration
             /\ UNCHANGED <<claude1, claude2, monitorVars, collectorVars, history>>
             /\ UNCHANGED <<agentVars, orchVars, loopVars, threadVars>>

\* a driver that sends the lines starting with > to the primary like the rest
ForcedToSecondaryNever(user_input) == claude1 = None /\ claude2 # None

\* line 965: the text goes to the secondary directly
ForcedToSecondary(user_input) ==
    Head(user_input) = ">" \/ (claude1 = None /\ claude2 # None)

\* lines 951-975: one line of the operator
RunLine(line) ==
    /\ pc = "idle"
    /\ main = "session"
    /\ handler = "none"
    /\ LET user_input == Strip(line)
       IN  IF user_input = <<>> THEN UNCHANGED vars
           ELSE IF Head(user_input) = "/" THEN HandleCommand(user_input)
           ELSE IF ForcedToSecondary(user_input)
           THEN DirectSend(claude2, IF Head(user_input) = ">"
                                    THEN Strip(Tail(user_input)) ELSE user_input)
           ELSE IF claude1 # None
           THEN IF auto_orchestration THEN Input(user_input)
                ELSE DirectSend(claude1, user_input)
           ELSE UNCHANGED vars

\* what the operator may type
Lines ==
    {<<"x">>, <<" ">>, <<">", " ", "x">>, <<"/", "help">>, <<"/", "exit">>,
     <<"/", "auto", " ", "off">>, <<"/", "auto", " ", "on">>}

\* what the agents may say to the driver
RunPrimaryVocab == {CompleteMarker, "@claude-2:", "x"}
RunSecondaryVocab == {CompleteMarker, "@claude-1:"}

\* lines 544-561: the session as InteractiveSession.__init__ leaves it: the
\* primary is dropped when it is not running, and no session is built without
\* a running agent
InitRun ==
    /\ \E reg \in SUBSET {"claude-1", "claude-2"},
          st \in [Agents -> {Started, NotFound, Exited}] :
          /\ \A a \in Agents \ reg : st[a] = NotFound
          /\ \E a \in reg : st[a] = Started
          /\ registered = reg
          /\ pid = [a \in Agents |-> st[a].pid]
          /\ fd = [a \in Agents |-> st[a].fd]
          /\ process_running = [a \in Agents |-> st[a].running]
          /\ alive = [a \in Agents |-> st[a].alive]
          /\ slave_open = [a \in Agents |-> st[a].alive]
          /\ heartbeat_running = [a \in Agents |-> FALSE]
          /\ claude1 = IF st["claude-1"] = Started THEN "claude-1" ELSE None
    /\ ThreadsInit
    /\ pty_closed = [a \in Agents |-> FALSE]
    /\ vocab = [a \in Agents |->
                   IF a = "claude-1" THEN RunPrimaryVocab ELSE RunSecondaryVocab]
    /\ claude2 = IF "claude-2" \in registered THEN "claude-2" ELSE None
    /\ auto_orchestration = TRUE
    /\ MonitorInit
    /\ CollectorInit
    /\ history = <<>>
    /\ OrchInSession
    /\ LoopLocalsInit

NextRun ==
    \/ \E line \in Lines : RunLine(line)
    \/ DirectRead
    \/ DirectEnd
    \/ LoopSend
    \/ CollectRead
    \/ CollectEnd
    \/ Route
    \/ Collect2Read
    \/ Collect2End
    \/ Forward
    \/ AfterLoop
    \/ \E a \in {"claude-1", "claude-2"} : ChildExit(a)

SpecRun == InitRun /\ [][NextRun]_vars

\* the agent the prompt names: claude-1, or claude-2 when the session was built
\* without a running claude-1
Primary == IF claude1 # None THEN claude1 ELSE claude2

\* the operator's line, trimmed, is not empty and starts with the token
StartsWith(line, token) == Strip(line) # <<>> /\ Head(Strip(line)) = token

Monitored == {claude1, claude2} \ {None}

\* the child of the agent exits; it is not reaped yet
ChildBecomesZombie(a) ==
    /\ pid[a] # None
    /\ slave_open[a]
    /\ slave_open' = [slave_open EXCEPT ![a] = FALSE]
    /\ UNCHANGED <<agentVars, sessionVars, orchVars, loopVars>>
    /\ UNCHANGED <<heartbeat_running, reader, heartbeat, term, terminations, closes>>
    /\ UNCHANGED streamVars

\* the system reaps the exited child (SIGCHLD ignored by the process that
\* started the orchestrator): from now on the probe fails
ZombieReaped(a) ==
    /\ pid[a] # None
    /\ ~slave_open[a] /\ alive[a]
    /\ alive' = [alive EXCEPT ![a] = FALSE]
    /\ UNCHANGED <<registered, pid, fd, process_running, pty_closed, vocab>>
    /\ UNCHANGED <<sessionVars, orchVars, loopVars, threadVars>>

\* lines 851-880 and 889-918: the monitor's look at one agent in one pass:
\* the probe, the warning (with the non-blocking wait) when the agent was
\* running at the last look and is not now, the new was_running
MonitorCheck(a) ==
    /\ main = "session" /\ running
    /\ a \in Monitored
    /\ pid[a] # None
    /\ process_running' = AfterIsRunning(a, process_running)
    /\ was_running' = [was_running EXCEPT ![a] = IsRunning(a)]
    /\ warnings' = [warnings EXCEPT ![a] =
                       IF was_running[a] /\ ~IsRunning(a) THEN @ + 1 ELSE @]
    /\ UNCHANGED <<registered, pid, fd, pty_closed, alive, vocab>>
    /\ UNCHANGED <<claude1, claude2, auto_orchestration, collectorVars, history>>
    /\ UNCHANGED <<orchVars, loopVars, threadVars>>

\* what the operator types beside the monitor
MonitorLines == {<<">", " ", "x">>, <<"/", "help">>}

\* lines 544-561, 845-846: a session with claude-1 and claude-2, each started
\* or not, at least one running
InitMonitor == InitRun

NextMonitor ==
    \/ \E line \in MonitorLines : RunLine(line)
    \/ DirectRead
    \/ DirectEnd
    \/ \E a \in {"claude-1", "claude-2"} : MonitorCheck(a)
    \/ \E a \in {"claude-1", "claude-2"} : ChildBecomesZombie(a)
    \/ \E a \in {"claude-1", "claude-2"} : ZombieReaped(a)

\* the monitor thread wakes every 10 s as long as the session runs (line 920),
\* and the driver's collector passes are bounded in time; the end of the
\* collector is fair by the move of pc it makes
DirectEnds ==
    /\ pc = "direct"
    /\ idle_checks >= MaxIdleChecks \/ output # <<>> \/ idle_checks > 0
    /\ pc' = "idle"

SpecMonitor ==
    /\ InitMonitor /\ [][NextMonitor]_vars
    /\ \A a \in {"claude-1", "claude-2"} : WF_vars(MonitorCheck(a))
    /\ WF_vars(DirectRead)
    /\ WF_pc(DirectEnds)

\* the child of a monitored agent that was running when the session began has
\* exited
Stopped(a) == a \in Monitored /\ a \in start_ok /\ pid[a] # None /\ ~slave_open[a]

\* C22: when the child of an agent stops during the session the monitor
\* notices on a later pass and warns once about that agent, never twice, and
\* its passes leave the session, the driver and the other agent as they are.
C22_MonitorWarnsOnce ==
    /\ \A a \in {"claude-1", "claude-2"} : Stopped(a) ~> (warnings[a] = 1)
    /\ [](\A a \in Agents : warnings[a] <= 1)
    /\ [][\A a \in {"claude-1", "claude-2"} : MonitorCheck(a) =>
             /\ <<main, running, pc, sends>>' = <<main, running, pc, sends>>
             /\ \A b \in Agents \ {a} : process_running'[b] = process_running[b]
             /\ alive' = alive /\ slave_open' = slave_open]_vars

\* C23: stopped is final.  process_running goes from false to true only when
\* the one start() of an agent returns, for an agent that has never been
\* running and before any terminate() was called; start() is called on an
\* agent only once, and never after the agent ran, stopped or was terminated.
C23_StoppedIsTerminal ==
    /\ [][\A a \in Agents : (process_running'[a] /\ ~process_running[a]) =>
             /\ starting = a /\ main = "start"
             /\ a \notin start_ok
             /\ \A c \in Callers : terminated[c] = {}]_vars
    /\ [][\A a \in Agents : (starting' = a /\ starting # a) =>
             /\ a \notin attempted
             /\ pid[a] = None /\ ~process_running[a]
             /\ a \notin start_ok
             /\ \A c \in Callers : terminated[c] = {}]_vars
    /\ [](\A a \in Agents :
             (a \in terminated["main"] \cup terminated["handler"]) =>
                ~process_running[a])

\* C23 witness: claude-1 ran, its child exited and the monitor's probe found
\* out; claude-2, started after it, still runs and the session goes on
C23_Witness ==
    /\ main = "session" /\ handler = "none"
    /\ start_ok = {"claude-1", "claude-2"}
    /\ ~process_running["claude-1"] /\ ~alive["claude-1"]
    /\ process_running["claude-2"]

(***************************************************************************)
(* read_output over bytes: the buffer swap, the two early returns, the     *)
(* polling loop and the escape stripping at its end (lines 282-351).       *)
(***************************************************************************)

ESC == "ESC"
BEL == "BEL"

\* the bytes of the texts read here
Bytes == {ESC, BEL, "[", "]", "(", ")", "=", ">", "\\", "0", ";", "?", " ", "m",
          "\r", "\n"}

\* line 341: [0-9;?], [ -/] and [@-~]
CsiParams == {"0", ";", "?"}
CsiIntermediates == {" ", "(", ")"}
CsiFinals == {"m", "[", "]", "\\"}
\* line 343: [^\x07\x1b]
OscBody == Bytes \ {BEL, ESC}
\* line 345: [0-9A-Za-z]
Alnum == {"0", "m"}

\* the index after the longest run of bytes of a class that starts at i
RECURSIVE RunEnd(_, _, _)
RunEnd(s, i, class) ==
    IF i <= Len(s) /\ s[i] \in class THEN RunEnd(s, i + 1, class) ELSE i

At(s, i, c) == i <= Len(s) /\ s[i] = c

\* line 341: the last byte of the match of \x1b\[[0-9;?]*[ -/]*[@-~] at i, or 0
CsiEnd(s, i) ==
    IF At(s, i, ESC) /\ At(s, i + 1, "[")
    THEN LET k == RunEnd(s, RunEnd(s, i + 2, CsiParams), CsiIntermediates)
         IN  IF k <= Len(s) /\ s[k] \in CsiFinals THEN k ELSE 0
    ELSE 0

\* a CSI pattern without the ? of private modes
CsiEndNoPrivate(s, i) ==
    IF At(s, i, ESC) /\ At(s, i + 1, "[")
    THEN LET k == RunEnd(s, RunEnd(s, i + 2, CsiParams \ {"?"}), CsiIntermediates)
         IN  IF k <= Len(s) /\ s[k] \in CsiFinals THEN k ELSE 0
    ELSE 0

\* line 343: the last byte of the match of \x1b\][^\x07\x1b]*(\x07|\x1b\\) at i, or 0
OscEnd(s, i) ==
    IF At(s, i, ESC) /\ At(s, i + 1, "]")
    THEN LET k == RunEnd(s, i + 2, OscBody)
         IN  IF At(s, k, BEL) THEN k
             ELSE IF At(s, k, ESC) /\ At(s, k + 1, "\\") THEN k + 1
             ELSE 0
    ELSE 0

\* line 345: the last byte of the match of \x1b[()][0-9A-Za-z] at i, or 0
CharsetEnd(s, i) ==
    IF At(s, i, ESC) /\ (At(s, i + 1, "(") \/ At(s, i + 1, ")"))
          /\ i + 2 <= Len(s) /\ s[i + 2] \in Alnum
    THEN i + 2 ELSE 0

\* line 347: the last byte of '\x1b=' or of '\x1b>' at i, or 0
KeypadEnd(s, i) == IF At(s, i, ESC) /\ At(s, i + 1, "=") THEN i + 1 ELSE 0
NumpadEnd(s, i) == IF At(s, i, ESC) /\ At(s, i + 1, ">") THEN i + 1 ELSE 0

\* re.sub(pattern, '', s) and s.replace(pair, ''): one pass from the left that
\* drops each match and goes on after it
MatchEnd(pattern, s, i) ==
    CASE pattern = "csi" -> CsiEnd(s, i)
      [] pattern = "csi_no_private" -> CsiEndNoPrivate(s, i)
      [] pattern = "osc" -> OscEnd(s, i)
      [] pattern = "charset" -> CharsetEnd(s, i)
      [] pattern = "keypad" -> KeypadEnd(s, i)
      [] pattern = "numpad" -> NumpadEnd(s, i)

RECURSIVE Remove(_, _, _)
Remove(pattern, s, i) ==
    IF i > Len(s) THEN <<>>
    ELSE IF MatchEnd(pattern, s, i) > 0
         THEN Remove(pattern, s, MatchEnd(pattern, s, i) + 1)
    ELSE <<s[i]>> \o Remove(pattern, s, i + 1)

\* lines 338-349 with a CSI pattern that misses private modes
SanitizeNoPrivate(s) ==
    NormalizeNewlines(
        Remove("numpad",
            Remove("keypad",
                Remove("charset",
                    Remove("osc",
                        Remove("csi_no_private", s, 1), 1), 1), 1), 1))

\* lines 338-349: the escape stripping and the newline normalization
Sanitize(s) ==
    NormalizeNewlines(
        Remove("numpad",
            Remove("keypad",
                Remove("charset",
                    Remove("osc",
                        Remove("csi", s, 1), 1), 1), 1), 1))

\* the longest raw text and the most escape sequences in one text
MaxRaw == 4
MaxSeqs == 2

\* line 310: the bytes one call reads from the PTY
Taken(n) == SubSeq(pty, 1, n)

\* read_output, lines 282-351, called by the collector on the main thread:
\* the buffer is taken; with pty_closed set, or a failing probe, it is
\* returned as it is; else the loop reads some of what the child has written
\* and ends on its timeout or on EIO (the slave side is closed and nothing is
\* left), where a failing probe (the child has left the process table by
\* then) sets pty_closed and clears process_running; what was gathered is
\* sanitized and returned.  reader records the return statement taken.
ReadOutputCall ==
    /\ fd[Subject] # None
    /\ output_buffer' = [output_buffer EXCEPT ![Subject] = <<>>]
    /\ IF pty_closed[Subject]
       THEN /\ out' = [out EXCEPT !["main"] = output_buffer[Subject]]
            /\ reader' = [reader EXCEPT !["main"] = "return_closed"]
            /\ UNCHANGED <<pty, process_running, pty_closed, alive>>
       ELSE IF ~IsRunning(Subject)
       THEN /\ process_running' = AfterIsRunning(Subject, process_running)
            /\ out' = [out EXCEPT !["main"] = output_buffer[Subject]]
            /\ reader' = [reader EXCEPT !["main"] = "return_stopped"]
            /\ UNCHANGED <<pty, pty_closed, alive>>
       ELSE \E n \in 0..Len(pty), eio, gone \in BOOLEAN :
            /\ eio => (~slave_open[Subject] /\ n = Len(pty))
            /\ gone => eio
            /\ pty' = SubSeq(pty, n + 1, Len(pty))
            /\ out' = [out EXCEPT !["main"] =
                          Sanitize(output_buffer[Subject] \o Taken(n))]
            /\ reader' = [reader EXCEPT !["main"] = "return"]
            /\ IF gone
               THEN /\ alive' = [alive EXCEPT ![Subject] = FALSE]
                    /\ pty_closed' = [pty_closed EXCEPT ![Subject] = TRUE]
                    /\ process_running' = [process_running EXCEPT ![Subject] = FALSE]
               ELSE UNCHANGED <<alive, pty_closed, process_running>>
    /\ UNCHANGED <<registered, pid, fd, vocab>>
    /\ UNCHANGED <<sessionVars, orchVars, loopVars>>
    /\ UNCHANGED <<slave_open, heartbeat_running, heartbeat, term, terminations, closes>>
    /\ UNCHANGED <<produced, response, received, discarded>>

\* the bytes of the raw texts, and the raw texts
RawBytes == {ESC, "[", "=", "m"}
RawTexts == UNION {[1..k -> RawBytes] : k \in 0..MaxRaw}

\* texts made of complete escape sequences only
EscapeSequences ==
    { <<ESC, "[", "0", ";", "0", "m">>, <<ESC, "[", "?", "0", " ", "m">>,
      <<ESC, "]", "0", ";", "\r", BEL>>, <<ESC, "]", "[", "m", ESC, "\\">>,
      <<ESC, "(", "0">>, <<ESC, ")", "m">>, <<ESC, "=">>, <<ESC, ">">> }

RECURSIVE Concat(_)
Concat(texts) ==
    IF texts = <<>> THEN <<>> ELSE Head(texts) \o Concat(Tail(texts))

EscapeTexts ==
    {Concat(q) : q \in UNION {[1..k -> EscapeSequences] : k \in 0..MaxSeqs}}

\* what start() leaves in the buffer (lines 130, 186, 215)
Banners == {<<ESC, "[", "m", "m">>, <<ESC, "(", "0">>}

\* what the child of an agent with a banner or a heartbeat has written
ReplyTexts == {<<>>, <<"m", "\r", "\n", "\r">>, <<ESC, "[", "m">>, <<"=", "m">>}

\* a started agent whose child has written a text the collector has not read;
\* produced is all the child has written
InitRead ==
    /\ \E hb \in BOOLEAN, banner \in Banners \cup {<<>>} :
          /\ heartbeat_running = [a \in Agents |-> a = Subject /\ hb]
          /\ heartbeat = IF hb THEN "test" ELSE "off"
          /\ output_buffer = [a \in Agents |-> IF a = Subject THEN banner ELSE <<>>]
          /\ IF hb \/ banner # <<>>
             THEN pty \in ReplyTexts
             ELSE pty \in RawTexts \cup EscapeTexts
          /\ produced = banner \o pty
    /\ pid = [a \in Agents |-> IF a = Subject THEN Started.pid ELSE None]
    /\ fd = [a \in Agents |-> IF a = Subject THEN Started.fd ELSE None]
    /\ process_running = [a \in Agents |-> a = Subject]
    /\ alive = [a \in Agents |-> a = Subject]
    /\ slave_open = [a \in Agents |-> a = Subject]
    /\ registered = {Subject}
    /\ pty_closed = [a \in Agents |-> FALSE]
    /\ vocab = [a \in Agents |-> SecondaryVocab]
    /\ claude1 = Subject
    /\ claude2 = None
    /\ auto_orchestration = TRUE
    /\ MonitorInit
    /\ CollectorInit
    /\ history = <<>>
    /\ reader = [t \in Threads |-> "idle"]
    /\ term = "none"
    /\ terminations = 0
    /\ closes = [a \in Agents |-> 0]
    /\ out = [t \in Threads |-> <<>>]
    /\ response = <<>>
    /\ received = <<>>
    /\ discarded = <<>>
    /\ OrchInSession
    /\ LoopLocalsInit

NextRead ==
    \/ ReadOutputCall
    \/ HeartbeatTest
    \/ HeartbeatBeat
    \/ HeartbeatWrite
    \/ HeartbeatAppend
    \/ ChildDies
    \/ ChildReaped

SpecRead == InitRead /\ [][NextRead]_vars

\* C24: the sanitizer is idempotent: what a sanitizing read returns is left as
\* it is by the sanitizer, also where removing one escape sequence has joined
\* the bytes around it into a new one.
C24_SanitizeIdempotent ==
    reader["main"] = "return" => Sanitize(out["main"]) = out["main"]

\* the end of the complete escape sequence that starts at i, or 0: CSI
\* (ESC [ ?* [0-9;]* [ -/]* [@-~]), OSC ended by BEL or ST, charset select,
\* ESC = or ESC >
SequenceEnd(s, i) ==
    IF At(s, i, ESC) /\ At(s, i + 1, "[")
    THEN LET k == RunEnd(s, RunEnd(s, RunEnd(s, i + 2, {"?"}), {"0", ";"}),
                         CsiIntermediates)
         IN  IF k <= Len(s) /\ s[k] \in CsiFinals THEN k ELSE 0
    ELSE IF OscEnd(s, i) > 0 THEN OscEnd(s, i)
    ELSE IF CharsetEnd(s, i) > 0 THEN CharsetEnd(s, i)
    ELSE IF KeypadEnd(s, i) > 0 THEN KeypadEnd(s, i)
    ELSE NumpadEnd(s, i)

\* s from i on is a concatenation of complete escape sequences
RECURSIVE EscapesOnly(_, _)
EscapesOnly(s, i) ==
    i > Len(s) \/ (SequenceEnd(s, i) > 0 /\ EscapesOnly(s, SequenceEnd(s, i) + 1))

C26_AnyRunningTargetRouted ==
    [][(/\ Routing
        /\ ~HasCompletion(RouteReply)
        /\ HasDelegation(RouteReply)
        /\ LET target == DelegationTarget(RouteReply)
           IN  /\ target \in registered /\ IsRunning(target)
               /\ target # current_agent)
         => (/\ sends' = Append(sends, DelegationTarget(RouteReply))
             /\ pc' = "collect2")]_vars

\* C27: after the loop the budget warning is given exactly when the loop ran
\* out of passes, that is when its B-th pass ended with a delegation routed
\* back and the loop test failed; a loop that ended inside its B-th pass
\* (completion found, or the turn given up) gives no budget warning.
C27_WarningOnlyWhenExhausted ==
    [][(pc = "after" /\ pc' = "idle")
         => (budget_warned' <=> outcome = "exhausted")]_vars

(***************************************************************************)
(* The collector with its clock: _send_to_claude1 (lines 1127-1194), whose *)
(* polling loop is that of the orchestration loop (lines 718-732, 791-803) *)
(* and of _send_to_claude2 (lines 1215-1238).  Time is in half seconds.    *)
(***************************************************************************)

\* time.sleep(2.0) after the send; deadline = time.time() + 45.0;
\* read_output(timeout=3.0); the sleeps after a chunk, after an empty read
\* with nothing gathered yet, and after a later empty read
SettleDelay == 4
ResponseTimeout == 90
ReadTimeout == 6
BatchDelay == 1
ColdDelay == 4
IdleDelay == 2

\* what a pass may take beyond its sleeps: nothing, or a pause of the process
Pauses == {0, 60}

\* line 1151: the test of the polling loop
Polling == now < deadline /\ idle_checks < MaxIdleChecks

\* lines 1129-1150: the agent is probed (not available when the probe fails)
\* and the command written; the clock starts and the deadline is set after
\* the settle delay
SendToClaude1(command) ==
    /\ pc = "idle"
    /\ claude1 # None
    /\ process_running' = AfterSendCommand(claude1, process_running)
    /\ IF SendCommand(claude1)
       THEN /\ sends' = <<claude1>>
            /\ last_sent' = command
            /\ pc' = "polling"
            /\ outcome' = "running"
       ELSE /\ sends' = <<>>
            /\ last_sent' = <<>>
            /\ outcome' = "unavailable"
            /\ UNCHANGED pc
    /\ current_agent' = claude1
    /\ current_command' = command
    /\ output' = <<>>
    /\ idle_checks' = 0
    /\ cleaned_output' = <<>>
    /\ now' = SettleDelay
    /\ deadline' = SettleDelay + ResponseTimeout
    /\ attempt_log' = <<>>
    /\ UNCHANGED <<registered, pid, fd, pty_closed, alive, vocab>>
    /\ UNCHANGED <<claude1, claude2, auto_orchestration, monitorVars, history>>
    /\ UNCHANGED <<orchVars, threadVars>>
    /\ UNCHANGED <<loop_count, final_result, task, claude2_output, idle_checks2,
                   cleaned_output2, budget_warned>>

\* a pass that counts every empty read and never starts the count again
SendToClaude1PollNoReset ==
    /\ pc = "polling"
    /\ Polling
    /\ \E chunk \in ReadOutput(claude1, output), pause \in Pauses :
          LET read_time == IF IsRunning(claude1) THEN ReadTimeout ELSE 0
          IN  IF chunk # <<>>
              THEN /\ output' = output \o chunk
                   /\ idle_checks' = idle_checks
                   /\ attempt_log' = Append(attempt_log, "chunk")
                   /\ now' = now + read_time + BatchDelay + pause
              ELSE /\ output' = output
                   /\ idle_checks' = idle_checks + 1
                   /\ attempt_log' = Append(attempt_log, "empty")
                   /\ now' = now + read_time + pause
                               + (IF Strip(output) = <<>> THEN ColdDelay ELSE IdleDelay)
    /\ process_running' = AfterIsRunning(claude1, process_running)
    /\ UNCHANGED <<registered, pid, fd, pty_closed, alive, vocab>>
    /\ UNCHANGED <<claude1, claude2, auto_orchestration, monitorVars, deadline, history>>
    /\ UNCHANGED <<orchVars, threadVars>>
    /\ UNCHANGED <<pc, loop_count, current_agent, current_command, cleaned_output,
                   final_result, task, claude2_output, idle_checks2, cleaned_output2,
                   sends, last_sent, outcome, budget_warned>>

\* lines 1151-1168: one pass of the polling loop: read_output returns at once
\* when the agent is found stopped and after its timeout otherwise; a chunk
\* is appended and the idle count starts again, an empty read is counted
SendToClaude1Poll ==
    /\ pc = "polling"
    /\ Polling
    /\ \E chunk \in ReadOutput(claude1, output), pause \in Pauses :
          LET read_time == IF IsRunning(claude1) THEN ReadTimeout ELSE 0
          IN  IF chunk # <<>>
              THEN /\ output' = output \o chunk
                   /\ idle_checks' = 0
                   /\ attempt_log' = Append(attempt_log, "chunk")
                   /\ now' = now + read_time + BatchDelay + pause
              ELSE /\ output' = output
                   /\ idle_checks' = idle_checks + 1
                   /\ attempt_log' = Append(attempt_log, "empty")
                   /\ now' = now + read_time + pause
                               + (IF Strip(output) = <<>> THEN ColdDelay ELSE IdleDelay)
    /\ process_running' = AfterIsRunning(claude1, process_running)
    /\ UNCHANGED <<registered, pid, fd, pty_closed, alive, vocab>>
    /\ UNCHANGED <<claude1, claude2, auto_orchestration, monitorVars, deadline, history>>
    /\ UNCHANGED <<orchVars, threadVars>>
    /\ UNCHANGED <<pc, loop_count, current_agent, current_command, cleaned_output,
                   final_result, task, claude2_output, idle_checks2, cleaned_output2,
                   sends, last_sent, outcome, budget_warned>>

\* lines 1151, 1172-1194: the loop test fails; the reply is filtered and shown
SendToClaude1Shown ==
    /\ pc = "polling"
    /\ ~Polling
    /\ LET lines == Split(NormalizeNewlines(output), "\n")
           filtered == CleanOutputLines(current_command, lines, "claude1")
       IN  IF Strip(output) = <<>>
           THEN cleaned_output' = <<>> /\ outcome' = "no_response"
           ELSE IF filtered = <<>>
           THEN cleaned_output' = <<>> /\ outcome' = "unparsed"
           ELSE cleaned_output' = Join(filtered, "\n") /\ outcome' = "shown"
    /\ pc' = "idle"
    /\ UNCHANGED <<agentVars, sessionVars, orchVars, threadVars>>
    /\ UNCHANGED <<loop_count, current_agent, current_command, output, idle_checks,
                   final_result, task, claude2_output, idle_checks2, cleaned_output2,
                   sends, last_sent, budget_warned>>

\* a session whose primary says little
InitCollect ==
    /\ SessionInit
    /\ vocab = [a \in Agents |-> SecondaryVocab]

NextCollect ==
    \/ \E command \in Commands : SendToClaude1(command)
    \/ SendToClaude1Poll
    \/ SendToClaude1Shown
    \/ ChildExit("claude-1")

SpecCollect == InitCollect /\ [][NextCollect]_vars

\* the number of empty reads at the end of the log
RECURSIVE TrailingEmpty(_)
TrailingEmpty(log) ==
    IF log = <<>> \/ log[Len(log)] # "empty" THEN 0
    ELSE 1 + TrailingEmpty(SubSeq(log, 1, Len(log) - 1))

\* C28: the collector polls only while now < deadline and k < max_idle and
\* goes on to the reply only when that test fails; a read that brings a chunk
\* sets k to 0 and an empty read adds one to it; k stays within 0..max_idle
\* and is the number of empty reads in a row just made, so a collector that
\* ends before its deadline has just made max_idle (3) empty reads in a row.
C28_CollectorIdleCount ==
    /\ [](idle_checks \in 0..MaxIdleChecks)
    /\ [](pc \in {"polling", "idle"} => idle_checks = TrailingEmpty(attempt_log))
    /\ [][(pc = "polling" /\ attempt_log' # attempt_log) =>
             /\ Polling
             /\ pc' = "polling"
             /\ IF output' # output THEN idle_checks' = 0
                ELSE idle_checks' = idle_checks + 1]_vars
    /\ [][(pc = "polling" /\ pc' # "polling") =>
             /\ ~Polling
             /\ now < deadline => TrailingEmpty(attempt_log) = MaxIdleChecks]_vars

\* C28 witness: two empty reads, a chunk, then three empty reads in a row ended
\* the collector before its deadline
C28_Witness ==
    /\ pc = "idle" /\ outcome = "shown"
    /\ attempt_log = <<"empty", "empty", "chunk", "empty", "empty", "empty">>
    /\ idle_checks = MaxIdleChecks
    /\ now < deadline

\* C29: every string read_output returns is the sanitized form of what the
\* call gathered (the buffer it took and the bytes it read from the PTY), also
\* when it returns because pty_closed is set or the child has exited.
C29_ReturnsSanitized ==
    [][out'["main"] = Sanitize(output_buffer[Subject] \o Taken(Len(pty) - Len(pty')))
       \/ ~ReadOutputCall]_vars

\* the statements of read_output after an EIO with a failing probe
AfterEio == {"test_closed", "set_closed", "clear_running"}

\* C30: a read that meets EIO with the child gone sets pty_closed, which is
\* never cleared, leaves process_running false, reads no more and returns what
\* it has gathered; every read that starts later returns what the buffer held
\* and does not get to the fd.  (A read the signal handler's terminate()
\* breaks off returns nothing.)
C30_EioLatchesClosed ==
    /\ [][\A a \in Agents : pty_closed[a] => pty_closed'[a]]_vars
    /\ [](\A t \in Threads :
             reader[t] \in AfterEio => ~process_running[Subject] /\ ~IsRunning(Subject))
    /\ [][\A t \in Threads :
             (reader[t] \in AfterEio /\ reader'[t] # reader[t] /\ term' = term) =>
                /\ reader'[t] \in AfterEio \cup {"idle"}
                /\ pty' = pty
                /\ reader'[t] = "idle" =>
                      /\ pty_closed'[Subject] /\ ~process_running'[Subject]
                      /\ t = "main" => received' = received \o out[t]]_vars
    /\ [][\A t \in Threads :
             (reader[t] = "check_closed" /\ pty_closed[Subject]
                 /\ reader'[t] # reader[t] /\ term' = term) =>
                /\ reader'[t] = "idle"
                /\ pty' = pty
                /\ t = "main" => received' = received \o out[t]]_vars

\* C30 witness: the collector's read met EIO with the child gone and returned
\* the bytes it had gathered; its next read has taken from the buffer a byte
\* the heartbeat had read before, and finds pty_closed set
C30_Witness ==
    /\ pty_closed[Subject] /\ ~process_running[Subject]
    /\ received # <<>>
    /\ reader["main"] = "check_closed"
    /\ out["main"] # <<>>

\* the steps of terminate() in their order
TermOrder ==
    {<<"none", "stop_heartbeat">>, <<"stop_heartbeat", "sigterm">>,
     <<"sigterm", "wait">>, <<"sigterm", "finally">>, <<"wait", "recheck">>,
     <<"recheck", "finally">>, <<"finally", "none">>}

\* terminate() sends SIGKILL in this step
SendsSigkill == term = "recheck" /\ term' = "finally" /\ IsRunning(Subject)

\* C31: terminate() stops the heartbeat, then sends SIGTERM, then polls the
\* child, and sends SIGKILL only after that polling and only to a child that
\* is still alive: never before SIGTERM, never to a child that has exited.
C31_SigkillOnlyToLiveChild ==
    /\ [][term' # term => <<term, term'>> \in TermOrder]_vars
    /\ [](term \in {"sigterm", "wait", "recheck", "finally"}
             => ~heartbeat_running[Subject])
    /\ [][SendsSigkill => slave_open[Subject]]_vars

\* a caller of read_output reads the PTY master in this step (line 310)
ForegroundReads(t) ==
    reader[t] = "poll" /\ pty # <<>> /\ pty' = <<>> /\ out'[t] = out[t] \o pty

\* the heartbeat thread reads the PTY master in this step (line 385)
HeartbeatReads == heartbeat = "write" /\ pty # <<>> /\ pty' = <<>> /\ response' = pty

\* the statements under `with self.buffer_lock`: the buffer swap of
\* read_output (lines 288-290) and the heartbeat's append (lines 387-388); a
\* thread holds the mutex during a step exactly when it executes one of them
HoldsBufferLock(t) == reader[t] = "swap" /\ reader'[t] # "swap"
HeartbeatHoldsBufferLock == heartbeat = "append" /\ heartbeat' # "append"

\* C32: reads of the PTY master by the heartbeat and by the foreground read
\* are serialized by the agent's mutex: a thread reads the fd only while it
\* holds the mutex, and the heartbeat never reads while the foreground
\* read_output is inside its polling loop.
C32_ReadsUnderOneMutex ==
    /\ [][ForegroundReads("main") => HoldsBufferLock("main")]_vars
    /\ [][HeartbeatReads => HeartbeatHoldsBufferLock]_vars
    /\ [][HeartbeatReads => reader["main"] # "poll"]_vars

\* the heartbeat thread issues its write of a newline in this step (line 380)
HeartbeatWrites == heartbeat = "write" /\ heartbeat' # "write"

\* C33: the heartbeat writes its newline only while the agent is running:
\* once a terminate() of the agent has returned, or once pty_closed is set,
\* the heartbeat issues no further write.
C33_NoBeatAfterStop ==
    [][HeartbeatWrites => terminations = 0 /\ ~pty_closed[Subject]]_vars

(***************************************************************************)
(* The routing step applied to replies of the primary that hold delegation *)
(* markers, a completion marker and a line the filter removes.             *)
(***************************************************************************)
MarkerVocab == {CompleteMarker, "@claude-1:", "@claude-2:", "x", " ", "\n", "token"}
MarkerTexts == UNION {[1..k -> MarkerVocab] : k \in 1..MaxText}

InitMarker ==
    /\ registered = {"claude-1", "claude-2"}
    /\ pid = [a \in Agents |-> IF a \in registered THEN Started.pid ELSE NotFound.pid]
    /\ fd = [a \in Agents |-> IF a \in registered THEN Started.fd ELSE NotFound.fd]
    /\ process_running = [a \in Agents |-> a \in registered]
    /\ alive = [a \in Agents |-> a \in registered]
    /\ slave_open = [a \in Agents |-> a \in registered]
    /\ heartbeat_running = [a \in Agents |-> FALSE]
    /\ ThreadsInit
    /\ pty_closed = [a \in Agents |-> FALSE]
    /\ vocab = [a \in Agents |-> MarkerVocab]
    /\ claude1 = "claude-1"
    /\ claude2 = "claude-2"
    /\ auto_orchestration = TRUE
    /\ MonitorInit
    /\ CollectorInit
    /\ history = <<UserMessage>>
    /\ OrchInSession
    /\ pc = "route"
    /\ loop_count = 1
    /\ current_agent = "claude-1"
    /\ current_command = SystemInstruction \o <<"x">>
    /\ output \in MarkerTexts
    /\ idle_checks = 0
    /\ cleaned_output = <<>>
    /\ final_result = <<>>
    /\ task = <<>>
    /\ claude2_output = <<>>
    /\ idle_checks2 = 0
    /\ cleaned_output2 = <<>>
    /\ sends = <<"claude-1">>
    /\ last_sent = SystemInstruction \o <<"x">>
    /\ outcome = "running"
    /\ budget_warned = FALSE

SpecMarker == InitMarker /\ [][NextRoute]_vars

\* C34: a reply whose delegation marker names the agent that gave the reply
\* is handled as a reply with neither marker: the loop ends with the "no
\* marker" outcome, not with "agent not available", and nothing is written.
C34_SelfDelegationIgnored ==
    [][(/\ Routing
        /\ ~HasCompletion(RouteReply)
        /\ HasDelegation(RouteReply)
        /\ DelegationTarget(RouteReply) = current_agent)
         => (pc' = "after" /\ outcome' = "no_marker" /\ sends' = sends)]_vars

\* the text after the first delegation marker of a reply
AfterFirstCall(s) ==
    LET i == CHOOSE i \in 1..Len(s) :
                s[i] \in CallHeads /\ \A j \in 1..(i - 1) : s[j] \notin CallHeads
    IN  After(s, i)

\* C35: a reply whose delegation marker is followed by nothing but white
\* space gives no delegation: the parser yields none, and the loop ends with
\* nothing written to the agent the marker names.
C35_EmptyTaskIgnored ==
    [][(/\ Routing
        /\ ~HasCompletion(RouteReply)
        /\ \E i \in 1..Len(RouteReply) : RouteReply[i] \in CallHeads
        /\ Strip(AfterFirstCall(RouteReply)) = <<>>)
         => (/\ ParseAgentCall(RouteReply) = NoCall
             /\ pc' = "after" /\ outcome' = "no_marker" /\ sends' = sends)]_vars

\* the lines of the reply that the filter keeps, joined (lines 739-741)
KeptReply ==
    Join(CleanOutputLines(current_command,
                          Split(NormalizeNewlines(output), "\n"), current_agent), "\n")

\* C36: a reply whose completion and delegation markers stand only on lines
\* the filter removes neither ends the loop as complete nor is routed, also
\* when the filter removes every line.
C36_MarkersOnlyInCleanedReply ==
    [][(/\ Routing
        /\ ~HasCompletion(KeptReply)
        /\ ParseAgentCall(KeptReply) = NoCall)
         => (pc' = "after" /\ outcome' = "no_marker" /\ sends' = sends)]_vars

\* start() of agent a returns False in this step
StartFails(a) ==
    /\ main = "start" /\ handler = "none"
    /\ a \in attempted' /\ starting' = None /\ a \notin start_ok'
    /\ a \notin attempted \/ starting = a

SendBegin(command) ==
    /\ ReaderAt("main", "idle")
    /\ process_running' = AfterSendCommand(Subject, process_running)
    /\ IF ~SendCommand(Subject) THEN UNCHANGED reader
       ELSE IF command = <<>> THEN ReaderTo("main", "no_text")
       ELSE ReaderTo("main", "text_written")
    /\ UNCHANGED <<registered, pid, fd, pty_closed, alive, vocab>>
    /\ UNCHANGED <<sessionVars, orchVars, loopVars>>
    /\ UNCHANGED <<slave_open, heartbeat_running, heartbeat, term, terminations, closes>>
    /\ UNCHANGED streamVars

\* lines 266-276: the newline is written; claude and gemini get a carriage
\* return 50 ms later, for the others send_command returns True
SendTerminator ==
    /\ reader["main"] \in {"no_text", "text_written"}
    /\ IF cli_command[Subject] \in {"claude", "gemini"}
       THEN ReaderTo("main", "newline_written")
       ELSE ReaderTo("main", "idle")
    /\ UNCHANGED <<agentVars, sessionVars, orchVars, loopVars>>
    /\ UNCHANGED <<slave_open, heartbeat_running, heartbeat, term, terminations, closes>>
    /\ UNCHANGED streamVars

\* lines 270-276: the carriage return is written and send_command returns True
SendCarriageReturn ==
    /\ ReaderAt("main", "newline_written")
    /\ ReaderTo("main", "idle")
    /\ UNCHANGED <<agentVars, sessionVars, orchVars, loopVars>>
    /\ UNCHANGED <<slave_open, heartbeat_running, heartbeat, term, terminations, closes>>
    /\ UNCHANGED streamVars

\* the agent after start_all, started as a claude or as a codex agent; start()
\* has spawned the heartbeat thread for codex (lines 234-235)
InitSend ==
    /\ registered = {Subject}
    /\ \E command \in CliCommands :
          /\ cli_command = [a \in Agents |-> IF a = Subject THEN command ELSE None]
          /\ heartbeat_running = [a \in Agents |-> a = Subject /\ command = "codex"]
          /\ heartbeat = IF command = "codex" THEN "test" ELSE "off"
    /\ pid = [a \in Agents |-> IF a = Subject THEN Started.pid ELSE None]
    /\ fd = [a \in Agents |-> IF a = Subject THEN Started.fd ELSE None]
    /\ process_running = [a \in Agents |-> a = Subject]
    /\ alive = [a \in Agents |-> a = Subject]
    /\ slave_open = [a \in Agents |-> a = Subject]
    /\ pty_closed = [a \in Agents |-> FALSE]
    /\ vocab = [a \in Agents |-> SecondaryVocab]
    /\ claude1 = Subject
    /\ claude2 = None
    /\ auto_orchestration = TRUE
    /\ MonitorInit
    /\ CollectorInit
    /\ history = <<>>
    /\ reader = [t \in Threads |-> "idle"]
    /\ term = "none"
    /\ terminations = 0
    /\ closes = [a \in Agents |-> 0]
    /\ pty = <<>>
    /\ produced = 0
    /\ output_buffer = [a \in Agents |-> <<>>]
    /\ out = [t \in Threads |-> <<>>]
    /\ response = <<>>
    /\ received = <<>>
    /\ discarded = <<>>
    /\ running = TRUE
    /\ main = "session"
    /\ exit_code = <<>>
    /\ handler = "none"
    /\ attempted = registered
    /\ starting = None
    /\ start_ok = registered
    /\ success_count = 1
    /\ register_result = <<TRUE>>
    /\ start_all_result = <<TRUE>>
    /\ todo = [c \in Callers |-> {}]
    /\ terminated = [c \in Callers |-> {}]
    /\ LoopLocalsInit

NextSend ==
    \/ \E command \in {<<>>, <<"x">>} : SendBegin(command)
    \/ SendTerminator
    \/ SendCarriageReturn
    \/ HeartbeatTest
    \/ HeartbeatBeat
    \/ HeartbeatWrite
    \/ HeartbeatAppend
    \/ ChildProduces
    \/ ChildDies
    \/ ChildReaped

SpecSend == InitSend /\ [][NextSend]_vars

\* C38: the bytes of one send reach the PTY together: the heartbeat writes no
\* newline between the command text and its newline, nor between the newline
\* and the carriage return.
C38_SendIsContiguous ==
    [][HeartbeatWrites => reader["main"] \notin {"text_written", "newline_written"}]_vars

(***************************************************************************)
(* The loop with a secondary whose replies hold completion and delegation  *)
(* markers.                                                                *)
(***************************************************************************)
ForwardPrimaryVocab == {"@claude-2:", "x"}
ForwardSecondaryVocab == {CompleteMarker, "@claude-2:", "@codex:", "x"}

InitForward ==
    /\ SessionInit
    /\ vocab = [a \in Agents |-> IF a = "claude-1" THEN ForwardPrimaryVocab
                                 ELSE ForwardSecondaryVocab]

SpecForward == InitForward /\ [][Next]_vars

\* C39: while the reply of the delegated secondary is collected and
\* forwarded, the loop neither ends nor writes to an agent, whatever markers
\* the reply holds; the reply goes into the continuation text, and the next
\* write of the loop sends that text to the primary.
C39_SecondaryMarkersNotActedOn ==
    /\ [][(pc \in {"collect2", "forward"})
            => (/\ outcome' = outcome /\ sends' = sends
                /\ pc' \in {"collect2", "forward", "loop"})]_vars
    /\ [][(pc = "forward" /\ pc' # "forward")
            => (/\ pc' = "loop" /\ current_agent' = claude1
                /\ current_command' =
                      ContinueCommand(CleanedOutput(task, claude2_output, "claude-2")))]_vars
    /\ [][(pc = "loop" /\ Sends /\ loop_count > 0)
            => (/\ sends' = Append(sends, claude1)
                /\ last_sent' = current_command)]_vars

\* C39 witness: a reply of the secondary with a delegation marker and a
\* completion marker has been forwarded to the primary, and the loop goes on
C39_Witness ==
    /\ pc = "collect" /\ loop_count = 2 /\ outcome = "running"
    /\ sends = <<"claude-1", "claude-2", "claude-1">>
    /\ last_sent = ContinueCommand(<<"@claude-2:", CompleteMarker>>)

\* the agent names of the agent messages of a history, in order
AgentNames(h) ==
    LET IsAgentMessage(m) == m.role = "agent"
        selected == SelectSeq(h, IsAgentMessage)
    IN  [i \in 1..Len(selected) |-> selected[i].agent_name]

\* the agents whose replies the loop has collected and shown so far: every
\* agent written to, but for the latest one while its reply is awaited or when
\* its reply was blank
Shown ==
    IF pc \in {"collect", "route", "collect2", "forward"}
       \/ (pc \in {"after", "idle"} /\ outcome = "no_response")
    THEN SubSeq(sends, 1, Len(sends) - 1)
    ELSE sends

\* C40: of the messages recorded for one input, the first is the one user
\* message, and the agent messages are, in order, one per reply shown, each
\* under the name of the agent that gave the reply.
C40_HistoryFollowsTurns ==
    /\ pc # "idle" => history # <<>>
    /\ history # <<>> => history[1] = UserMessage
    /\ \A i \in 2..Len(history) : history[i].role # "user"
    /\ outcome # "unavailable" => AgentNames(history) = Shown

\* C40 witness: the primary delegated, the secondary replied, and the primary
\* answered the continuation: five messages in the order of the turns
C40_Witness ==
    /\ pc = "after" /\ outcome = "no_marker"
    /\ history = <<UserMessage, AgentMessage("claude-1"), SystemMessage,
                   AgentMessage("claude-2"), AgentMessage("claude-1")>>

=============================================================================
